---------------------------- MODULE Spec2Model ----------------------------
(***************************************************************************)
(* Model of slight_tlc5957.TLC5957 (src/slight_tlc5957.py): the grayscale  *)
(* and function-control buffers, the field and pixel accessors, and the    *)
(* bit-banged command windows of show() and update_fc().                   *)
(*                                                                         *)
(* A Python integer of more than 31 bits (the 48-bit register "header")    *)
(* is modelled as the set of its 1-bit positions: & is intersection, | is  *)
(* union, & ~m is set difference, << k adds k to every position.           *)
(***************************************************************************)
EXTENDS Integers, Sequences, FiniteSets, TLC

(***************************************************************************)
(* Class constants (src/slight_tlc5957.py lines 97-108, 195-201)           *)
(***************************************************************************)
COLORS_PER_PIXEL == 3
PIXEL_PER_CHIP == 16
CHANNEL_PER_CHIP == COLORS_PER_PIXEL * PIXEL_PER_CHIP
BUFFER_BYTES_PER_COLOR == 2
BUFFER_BYTES_PER_PIXEL == BUFFER_BYTES_PER_COLOR * COLORS_PER_PIXEL
CHIP_BUFFER_BIT_COUNT == 48
CHIP_BUFFER_BYTE_COUNT == CHIP_BUFFER_BIT_COUNT \div 8
CHIP_GS_BUFFER_BYTE_COUNT == CHIP_BUFFER_BYTE_COUNT * PIXEL_PER_CHIP
CHIP_FUNCTION_CMD_BIT_COUNT == 16
CHIP_FUNCTION_CMD_BYTE_COUNT == CHIP_FUNCTION_CMD_BIT_COUNT \div 8

FC__WRTGS == 1
FC__LATGS == 3
FC__WRTFC == 5
FC__LINERESET == 7
FC__READFC == 11
FC__TMGRST == 13
FC__FCWRTEN == 15

(***************************************************************************)
(* Bounds of the model                                                     *)
(***************************************************************************)
\* longest chain (in chips) that is constructed
MaxChips == 2
\* accessor calls made after construction in one behaviour
MaxCalls == 2

(***************************************************************************)
(* _FC_FIELDS (lines 243-334); masks and defaults written in decimal       *)
(***************************************************************************)
FC_FIELDS ==
    [ LODVTH         |-> [offset |-> 0,  length |-> 2, mask |-> 3,   default |-> 1],
      SEL_TD0        |-> [offset |-> 2,  length |-> 2, mask |-> 3,   default |-> 1],
      SEL_GDLY       |-> [offset |-> 4,  length |-> 1, mask |-> 1,   default |-> 1],
      XREFRESH       |-> [offset |-> 5,  length |-> 1, mask |-> 1,   default |-> 0],
      SEL_GCK_EDGE   |-> [offset |-> 6,  length |-> 1, mask |-> 1,   default |-> 0],
      SEL_PCHG       |-> [offset |-> 7,  length |-> 1, mask |-> 1,   default |-> 0],
      ESPWM          |-> [offset |-> 8,  length |-> 1, mask |-> 1,   default |-> 0],
      LGSE3          |-> [offset |-> 9,  length |-> 1, mask |-> 1,   default |-> 0],
      LGSE1          |-> [offset |-> 11, length |-> 3, mask |-> 7,   default |-> 0],
      CCB            |-> [offset |-> 14, length |-> 9, mask |-> 511, default |-> 256],
      CCG            |-> [offset |-> 23, length |-> 9, mask |-> 511, default |-> 256],
      CCR            |-> [offset |-> 32, length |-> 9, mask |-> 511, default |-> 256],
      BC             |-> [offset |-> 41, length |-> 3, mask |-> 7,   default |-> 4],
      PokerTransMode |-> [offset |-> 44, length |-> 1, mask |-> 1,   default |-> 0],
      LGSE2          |-> [offset |-> 45, length |-> 3, mask |-> 7,   default |-> 0] ]

\* the iteration order of _FC_FIELDS.items() (insertion order of the dict)
FC_FIELD_ORDER ==
    << "LODVTH", "SEL_TD0", "SEL_GDLY", "XREFRESH", "SEL_GCK_EDGE", "SEL_PCHG",
       "ESPWM", "LGSE3", "LGSE1", "CCB", "CCG", "CCR", "BC", "PokerTransMode",
       "LGSE2" >>

FieldNames == DOMAIN FC_FIELDS

(***************************************************************************)
(* Python integers as bit sets                                             *)
(***************************************************************************)
\* number of bits of n >= 0 (int.bit_length)
RECURSIVE BitLength(_)
BitLength(n) == IF n <= 0 THEN 0 ELSE 1 + BitLength(n \div 2)

\* the 1-bit positions among the low w bits of n (two's complement for n < 0)
BitsOf(n, w) == {i \in 0..(w - 1) : (n \div (2 ^ i)) % 2 = 1}

\* the integer whose 1-bit positions are S
RECURSIVE IntOf(_)
IntOf(S) ==
    IF S = {} THEN 0
    ELSE LET i == CHOOSE x \in S : TRUE IN (2 ^ i) + IntOf(S \ {i})

\* a & m for m >= 0
BitAnd(a, m) == IntOf(BitsOf(a, BitLength(m)) \cap BitsOf(m, BitLength(m)))

\* S << k and S >> k
Shl(S, k) == {i + k : i \in S}
Shr(S, k) == {i - k : i \in {j \in S : j >= k}}

(***************************************************************************)
(* bytearray indexing: buffers are functions on 0..len-1; a negative index *)
(* counts from the end, an index outside [-len, len) raises IndexError     *)
(***************************************************************************)
BufLen(b) == Cardinality(DOMAIN b)
IndexOk(b, i) == -BufLen(b) <= i /\ i < BufLen(b)
Norm(b, i) == IF i < 0 THEN i + BufLen(b) ELSE i
Item(b, i) == b[Norm(b, i)]
Zeros(n) == [i \in 0..(n - 1) |-> 0]

(***************************************************************************)
(* _get_48bit_value_from_buffer (lines 765-774)                            *)
(***************************************************************************)
get_48bit_ok(b, buffer_start) ==
    \A j \in 0..5 : IndexOk(b, buffer_start + j)

get_48bit_value_from_buffer(b, buffer_start) ==
    Shl(BitsOf(Item(b, buffer_start + 0), 8), 40) \cup
    Shl(BitsOf(Item(b, buffer_start + 1), 8), 32) \cup
    Shl(BitsOf(Item(b, buffer_start + 2), 8), 24) \cup
    Shl(BitsOf(Item(b, buffer_start + 3), 8), 16) \cup
    Shl(BitsOf(Item(b, buffer_start + 4), 8), 8) \cup
    BitsOf(Item(b, buffer_start + 5), 8)

(***************************************************************************)
(* _set_48bit_value_in_buffer (lines 776-790): [status, buffer]            *)
(***************************************************************************)
\* (value >> k) & 0xFF
ByteAt(value, k) == IntOf(Shr(value, k) \cap (0..7))

\* the first j in 0..5 whose index buffer_start + j raises IndexError (6: none)
first_bad_index(b, buffer_start) ==
    IF \A j \in 0..5 : IndexOk(b, buffer_start + j) THEN 6
    ELSE CHOOSE j \in 0..5 :
            /\ ~IndexOk(b, buffer_start + j)
            /\ \A k \in 0..(j - 1) : IndexOk(b, buffer_start + k)

set_48bit_value_in_buffer(b, buffer_start, value) ==
    IF ~(\A i \in value : i < CHIP_BUFFER_BIT_COUNT)
    THEN [status |-> "ValueError", buffer |-> b]
    ELSE LET n == first_bad_index(b, buffer_start)
             \* buffer[buffer_start + j] = (value >> 8 * (5 - j)) & 0xFF, unless
             \* an earlier assignment has raised
             w(bb, j) ==
                 IF j < n
                 THEN [bb EXCEPT ![Norm(b, buffer_start + j)] =
                                     ByteAt(value, 8 * (5 - j))]
                 ELSE bb
         IN [status |-> IF n = 6 THEN "ok" ELSE "IndexError",
             buffer |-> w(w(w(w(w(w(b, 0), 1), 2), 3), 4), 5)]

\* set_fc_bits_in_buffer without the "clear" step (header &= ~mask)
set_fc_bits_no_clear(b, chip_index, part_bit_offset, field, value) ==
    LET offset == part_bit_offset + field.offset
        restricted == BitAnd(value, field.mask)
        header_start == chip_index * CHIP_BUFFER_BYTE_COUNT
    IN  IF offset < 0
        THEN [status |-> "ValueError", buffer |-> b]
        ELSE IF ~get_48bit_ok(b, header_start)
        THEN [status |-> "IndexError", buffer |-> b]
        ELSE LET moved == Shl(BitsOf(restricted, BitLength(field.mask)), offset)
                 header == get_48bit_value_from_buffer(b, header_start)
             IN set_48bit_value_in_buffer(b, header_start, header \cup moved)

\* set_fc_bits_in_buffer clearing one bit more than the field has
set_fc_bits_wide_clear(b, chip_index, part_bit_offset, field, value) ==
    LET offset == part_bit_offset + field.offset
        restricted == BitAnd(value, field.mask)
        header_start == chip_index * CHIP_BUFFER_BYTE_COUNT
    IN  IF offset < 0
        THEN [status |-> "ValueError", buffer |-> b]
        ELSE IF ~get_48bit_ok(b, header_start)
        THEN [status |-> "IndexError", buffer |-> b]
        ELSE LET moved == Shl(BitsOf(restricted, BitLength(field.mask)), offset)
                 header == get_48bit_value_from_buffer(b, header_start)
                 mask == Shl(0..field.length, offset)
                             \cap (0..(CHIP_BUFFER_BIT_COUNT - 1))
             IN set_48bit_value_in_buffer(b, header_start,
                                          (header \ mask) \cup moved)

\* the value is moved to its position as it was passed in
set_fc_bits_no_mask(b, chip_index, part_bit_offset, field, value) ==
    LET offset == part_bit_offset + field.offset
        header_start == chip_index * CHIP_BUFFER_BYTE_COUNT
    IN  IF offset < 0
        THEN [status |-> "ValueError", buffer |-> b]
        ELSE IF ~get_48bit_ok(b, header_start)
        THEN [status |-> "IndexError", buffer |-> b]
        ELSE LET moved == Shl(BitsOf(value, BitLength(value)), offset)
                 header == get_48bit_value_from_buffer(b, header_start)
                 mask == Shl(BitsOf(field.mask, BitLength(field.mask)), offset)
             IN set_48bit_value_in_buffer(b, header_start,
                                          (header \ mask) \cup moved)

(***************************************************************************)
(* set_fc_bits_in_buffer (lines 529-569): [status, buffer]                 *)
(***************************************************************************)
set_fc_bits_in_buffer(b, chip_index, part_bit_offset, field, value) ==
    LET offset == part_bit_offset + field.offset
        \* restrict value
        restricted == BitAnd(value, field.mask)
        header_start == chip_index * CHIP_BUFFER_BYTE_COUNT
    IN  IF offset < 0
        THEN [status |-> "ValueError", buffer |-> b]   \* negative shift count
        ELSE IF ~get_48bit_ok(b, header_start)
        THEN [status |-> "IndexError", buffer |-> b]
        ELSE LET \* move value to position
                 moved == Shl(BitsOf(restricted, BitLength(field.mask)), offset)
                 header == get_48bit_value_from_buffer(b, header_start)
                 \* create/move mask
                 mask == Shl(BitsOf(field.mask, BitLength(field.mask)), offset)
                 \* clear, set
                 cleared == header \ mask
             IN set_48bit_value_in_buffer(b, header_start, cleared \cup moved)

(***************************************************************************)
(* get_fc_bits_in_buffer (lines 571-602): [status, value]                  *)
(***************************************************************************)
get_fc_bits_in_buffer(b, chip_index, part_bit_offset, field) ==
    LET offset == part_bit_offset + field.offset
        header_start == chip_index * CHIP_BUFFER_BYTE_COUNT
    IN  IF ~get_48bit_ok(b, header_start)
        THEN [status |-> "IndexError", value |-> 0]
        ELSE IF offset < 0
        THEN [status |-> "ValueError", value |-> 0]    \* negative shift count
        ELSE LET header == get_48bit_value_from_buffer(b, header_start)
                 mask == Shl(BitsOf(field.mask, BitLength(field.mask)), offset)
             IN [status |-> "ok", value |-> IntOf(Shr(header \cap mask, offset))]

(***************************************************************************)
(* _init_buffer_fc (lines 604-611): every field's default into every chip  *)
(***************************************************************************)
\* an exception of set_fc_bits_in_buffer would end the loops
RECURSIVE init_buffer_fc_from(_, _, _, _)
init_buffer_fc_from(b, chips, i, k) ==
    IF i >= chips THEN b
    ELSE IF k > Len(FC_FIELD_ORDER) THEN init_buffer_fc_from(b, chips, i + 1, 1)
    ELSE LET field == FC_FIELDS[FC_FIELD_ORDER[k]]
             r == set_fc_bits_in_buffer(b, i, 0, field, field.default)
         IN IF r.status = "ok"
            THEN init_buffer_fc_from(r.buffer, chips, i, k + 1)
            ELSE r.buffer

\* the defaults into the first chip only
init_buffer_fc_first_chip(b, chips) == init_buffer_fc_from(b, 1, 0, 1)

init_buffer_fc(b, chips) == init_buffer_fc_from(b, chips, 0, 1)

(***************************************************************************)
(* set_fc_CC, set_fc_BC, set_fc_ESPWM and their _all variants (lines       *)
(* 683-760): [status, buffer].  An exception of a field write ends the     *)
(* call, the fields written before it stay written.                        *)
(***************************************************************************)
set_fc_CC(b, chip_index, CCR, CCG, CCB) ==
    LET r1 == set_fc_bits_in_buffer(b, chip_index, 0, FC_FIELDS["CCR"], CCR)
    IN  IF r1.status # "ok" THEN r1
        ELSE LET r2 == set_fc_bits_in_buffer(r1.buffer, chip_index, 0,
                                             FC_FIELDS["CCG"], CCG)
             IN  IF r2.status # "ok" THEN r2
                 ELSE set_fc_bits_in_buffer(r2.buffer, chip_index, 0,
                                            FC_FIELDS["CCB"], CCB)

RECURSIVE set_fc_CC_from(_, _, _, _, _, _)
set_fc_CC_from(b, chips, i, CCR, CCG, CCB) ==
    IF i >= chips THEN [status |-> "ok", buffer |-> b]
    ELSE LET r == set_fc_CC(b, i, CCR, CCG, CCB)
         IN IF r.status = "ok"
            THEN set_fc_CC_from(r.buffer, chips, i + 1, CCR, CCG, CCB)
            ELSE r

set_fc_CC_all(b, chips, CCR, CCG, CCB) ==
    set_fc_CC_from(b, chips, 0, CCR, CCG, CCB)

set_fc_BC(b, chip_index, BC) ==
    set_fc_bits_in_buffer(b, chip_index, 0, FC_FIELDS["BC"], BC)

RECURSIVE set_fc_BC_from(_, _, _, _)
set_fc_BC_from(b, chips, i, BC) ==
    IF i >= chips THEN [status |-> "ok", buffer |-> b]
    ELSE LET r == set_fc_BC(b, i, BC)
         IN IF r.status = "ok"
            THEN set_fc_BC_from(r.buffer, chips, i + 1, BC)
            ELSE r

set_fc_BC_all(b, chips, BC) == set_fc_BC_from(b, chips, 0, BC)

\* a Python bool used as the int operand of value & mask: True is 1, False 0
bool_as_int(enable) == IF enable THEN 1 ELSE 0

\* lines 742-752: value=enable
set_fc_ESPWM(b, chip_index, enable) ==
    set_fc_bits_in_buffer(b, chip_index, 0, FC_FIELDS["ESPWM"],
                          bool_as_int(enable))

RECURSIVE set_fc_ESPWM_from(_, _, _, _)
set_fc_ESPWM_from(b, chips, i, enable) ==
    IF i >= chips THEN [status |-> "ok", buffer |-> b]
    ELSE LET r == set_fc_ESPWM(b, i, enable)
         IN IF r.status = "ok"
            THEN set_fc_ESPWM_from(r.buffer, chips, i + 1, enable)
            ELSE r

set_fc_ESPWM_all(b, chips, enable) == set_fc_ESPWM_from(b, chips, 0, enable)

(***************************************************************************)
(* Colour components.  A component of the tuple passed to set_pixel is an  *)
(* int, [t |-> "int", n |-> k, d |-> 1], or a float, given as the fraction *)
(* n / d: [t |-> "float", n |-> n, d |-> d] with d > 0.                    *)
(***************************************************************************)
IntC(k) == [t |-> "int", n |-> k, d |-> 1]
FloatC(n, d) == [t |-> "float", n |-> n, d |-> d]

\* int(value * 65535) for a float value in 0.0 .. 1.0 (truncation)
convert_01_float_to_16bit_integer(c) == (c.n * 65535) \div c.d

\* one of the three blocks of _check_and_convert (lines 848-862, 863-875,
\* 876-888): [status, value]
check_and_convert_one(c) ==
    IF c.t = "float"
    THEN IF ~(0 <= c.n /\ c.n <= c.d)
         THEN [status |-> "ValueError", value |-> 0]
         ELSE [status |-> "ok", value |-> convert_01_float_to_16bit_integer(c)]
    ELSE IF ~(0 <= c.n /\ c.n <= 65535)
         THEN [status |-> "ValueError", value |-> 0]
         ELSE [status |-> "ok", value |-> c.n]

\* _check_and_convert that never looks at value[2]
check_and_convert_skip_last(v) ==
    LET c0 == check_and_convert_one(v[1])
        c1 == check_and_convert_one(v[2])
    IN  IF c0.status # "ok" THEN [status |-> c0.status, value |-> << >>]
        ELSE IF c1.status # "ok" THEN [status |-> c1.status, value |-> << >>]
        ELSE [status |-> "ok", value |-> << c0.value, c1.value, v[3].n >>]

(***************************************************************************)
(* _check_and_convert (lines 845-888): [status, value], value the list as  *)
(* converted in place                                                      *)
(***************************************************************************)
check_and_convert(v) ==
    LET c0 == check_and_convert_one(v[1])
        c1 == check_and_convert_one(v[2])
        c2 == check_and_convert_one(v[3])
    IN  IF c0.status # "ok" THEN [status |-> c0.status, value |-> << >>]
        ELSE IF c1.status # "ok" THEN [status |-> c1.status, value |-> << >>]
        ELSE IF c2.status # "ok" THEN [status |-> c2.status, value |-> << >>]
        ELSE [status |-> "ok", value |-> << c0.value, c1.value, c2.value >>]

\* the byte assignments in R, G, B order
write_pixel_rgb(b, pixel_index, v) ==
    LET start == pixel_index * BUFFER_BYTES_PER_PIXEL
    IN  [b EXCEPT ![start + 0] = (v[1] \div 256) % 256,
                  ![start + 1] = v[1] % 256,
                  ![start + 2] = (v[2] \div 256) % 256,
                  ![start + 3] = v[2] % 256,
                  ![start + 4] = (v[3] \div 256) % 256,
                  ![start + 5] = v[3] % 256]

\* the six byte assignments that store value (converted, R G B) for a pixel:
\* buffer channel order is blue, green, red (lines 1034-1053, 1172-1181)
write_pixel(b, pixel_index, v) ==
    LET pixel_start == pixel_index * COLORS_PER_PIXEL
        start0 == (pixel_start + 0) * BUFFER_BYTES_PER_COLOR
        start1 == (pixel_start + 1) * BUFFER_BYTES_PER_COLOR
        start2 == (pixel_start + 2) * BUFFER_BYTES_PER_COLOR
    IN  [b EXCEPT ![start0 + 0] = (v[3] \div 256) % 256,
                  ![start0 + 1] = v[3] % 256,
                  ![start1 + 0] = (v[2] \div 256) % 256,
                  ![start1 + 1] = v[2] % 256,
                  ![start2 + 0] = (v[1] \div 256) % 256,
                  ![start2 + 1] = v[1] % 256]

\* set_pixel accepting pixel_index == pixel_count
set_pixel_upto(b, pixels, pixel_index, v) ==
    IF 0 <= pixel_index /\ pixel_index <= pixels
    THEN IF Len(v) # COLORS_PER_PIXEL
         THEN [status |-> "IndexError", buffer |-> b]
         ELSE LET c == check_and_convert(v)
              IN IF c.status # "ok"
                 THEN [status |-> c.status, buffer |-> b]
                 ELSE [status |-> "ok",
                       buffer |-> write_pixel(b, pixel_index, c.value)]
    ELSE [status |-> "IndexError", buffer |-> b]

(***************************************************************************)
(* set_pixel (lines 991-1058): [status, buffer]                            *)
(***************************************************************************)
set_pixel(b, pixels, pixel_index, v) ==
    IF 0 <= pixel_index /\ pixel_index < pixels
    THEN IF Len(v) # COLORS_PER_PIXEL
         THEN [status |-> "IndexError", buffer |-> b]
         ELSE LET c == check_and_convert(v)
              IN IF c.status # "ok"
                 THEN [status |-> c.status, buffer |-> b]
                 ELSE [status |-> "ok",
                       buffer |-> write_pixel(b, pixel_index, c.value)]
    ELSE [status |-> "IndexError", buffer |-> b]

(***************************************************************************)
(* __setitem__ (lines 1142-1186): [status, buffer]                         *)
(***************************************************************************)
\* the guard of __getitem__ in place of the one of __setitem__
setitem_skip_first(b, pixels, key, v) ==
    IF 0 < key /\ key < pixels
    THEN set_pixel(b, pixels, key, v)
    ELSE [status |-> "IndexError", buffer |-> b]

setitem(b, pixels, key, v) ==
    IF 0 <= key /\ key < pixels
    THEN IF Len(v) # COLORS_PER_PIXEL
         THEN [status |-> "IndexError", buffer |-> b]
         ELSE LET c == check_and_convert(v)
              IN IF c.status # "ok"
                 THEN [status |-> c.status, buffer |-> b]
                 ELSE [status |-> "ok", buffer |-> write_pixel(b, key, c.value)]
    ELSE [status |-> "IndexError", buffer |-> b]

(***************************************************************************)
(* set_channel (lines 1087-1119) and _set_16bit_value_in_buffer            *)
(***************************************************************************)
set_16bit_value_in_buffer(b, buffer_start, value) ==
    IF ~(0 <= value /\ value <= 65535)
    THEN [status |-> "AssertionError", buffer |-> b]
    ELSE IF ~IndexOk(b, buffer_start)
    THEN [status |-> "IndexError", buffer |-> b]
    ELSE LET b1 == [b EXCEPT ![Norm(b, buffer_start)] = (value \div 256) % 256]
         IN IF ~IndexOk(b, buffer_start + 1)
            THEN [status |-> "IndexError", buffer |-> b1]
            ELSE [status |-> "ok",
                  buffer |-> [b1 EXCEPT ![Norm(b, buffer_start + 1)] =
                                            value % 256]]

\* the channel order is not changed
channel_slot_same(channel_index) == channel_index

\* the wire slot of a channel: R, G, B of a pixel are kept as B, G, R
channel_slot(channel_index) ==
    IF channel_index % COLORS_PER_PIXEL = 0 THEN channel_index + 2
    ELSE IF channel_index % COLORS_PER_PIXEL = 2 THEN channel_index - 2
    ELSE channel_index

set_channel(b, channels, channel_index, value) ==
    IF 0 <= channel_index /\ channel_index < channels
    THEN IF ~(0 <= value /\ value <= 65535)
         THEN [status |-> "ValueError", buffer |-> b]
         ELSE set_16bit_value_in_buffer(
                  b, channel_slot(channel_index) * BUFFER_BYTES_PER_COLOR, value)
    ELSE [status |-> "IndexError", buffer |-> b]

(***************************************************************************)
(* __getitem__ (lines 1127-1140) and _get_16bit_value_from_buffer          *)
(***************************************************************************)
get_16bit_ok(b, buffer_start) ==
    IndexOk(b, buffer_start) /\ IndexOk(b, buffer_start + 1)

get_16bit_value_from_buffer(b, buffer_start) ==
    Item(b, buffer_start) * 256 + Item(b, buffer_start + 1)

getitem(b, pixels, key) ==
    IF 0 < key /\ key < pixels
    THEN IF /\ get_16bit_ok(b, key + 0) /\ get_16bit_ok(b, key + 2)
            /\ get_16bit_ok(b, key + 4)
         THEN [status |-> "ok",
               value |-> << get_16bit_value_from_buffer(b, key + 0),
                            get_16bit_value_from_buffer(b, key + 2),
                            get_16bit_value_from_buffer(b, key + 4) >>]
         ELSE [status |-> "IndexError", value |-> << >>]
    ELSE [status |-> "IndexError", value |-> << >>]

(***************************************************************************)
(* State of one driver instance and of the bus it drives                   *)
(***************************************************************************)
VARIABLES
    pixel_count,        \* self.pixel_count
    chip_count,         \* self.chip_count
    channel_count,      \* self.channel_count
    buffer,             \* self._buffer, the grayscale buffer
    buffer_fc,          \* self._buffer_fc, the function-control buffer
    spi_clock,          \* self._spi_clock.value
    spi_mosi,           \* self._spi_mosi.value
    latch,              \* self._latch.value
    spi_owner,          \* holder of the lock of self._spi: "none", "self",
                        \* "other" (another bus user), "peer" (the second caller)
    init_step,          \* position in __init__ ("done": constructed)
    push,               \* the running call: "none", "show", "update_fc", "window"
    pc,                 \* position in the running call ("ready": none)
    ret_pc,             \* where the running command window returns to
    row,                \* _write_buffer_GS: index of the for loop
    buffer_start,       \* local buffer_start of the running call
    write_count,        \* local write_count of the running call
    function_command,   \* _write_buffer_with_function_command: argument
    cmd_buffer,         \* ... argument buffer: "gs" or "fc"
    cmd_start,          \* ... argument buffer_start
    value,              \* ... local value (a bit set)
    latch_start_index,  \* ... local latch_start_index
    index,              \* ... index of the for loop
    win_latch,          \* history: latch line at each rising clock edge, this window
    win_bits,           \* history: data line at each rising clock edge, this window
    bus_log,            \* history: bus events of the running push
    last,               \* the last accessor call: arguments and outcome
    calls,              \* number of accessor calls made
    peer                \* a second caller of the driver: its push, suspended

vars == << pixel_count, chip_count, channel_count, buffer, buffer_fc,
           spi_clock, spi_mosi, latch, spi_owner, init_step, push, pc, ret_pc,
           row, buffer_start, write_count, function_command, cmd_buffer,
           cmd_start, value, latch_start_index, index, win_latch, win_bits,
           bus_log, last, calls, peer >>

sizeVars == << pixel_count, chip_count, channel_count >>
pinVars == << spi_clock, spi_mosi, latch, spi_owner >>
passVars == << row, buffer_start, write_count >>
windowVars == << function_command, cmd_buffer, cmd_start, value,
                 latch_start_index, index, win_latch, win_bits >>
pushVars == << init_step, push, pc, ret_pc, passVars, windowVars, bus_log >>

\* __init__ lines 378, 379, 383, 384 and the constructed driver
InitSteps == << "init_buffer_fc", "update_fc", "show", "show_again", "done" >>

NoCall ==
    [op |-> "none", status |-> "none", chip_index |-> 0, part_bit_offset |-> 0,
     field |-> "", value |-> 0, pixel_index |-> 0, triple |-> << >>, ret |-> 0,
     ret_triple |-> << >>, channel_index |-> 0, enable |-> FALSE]

\* the locals of a caller that is in no push, and its part of the history
IdleCaller ==
    [push |-> "none", pc |-> "ready", ret_pc |-> "ready", row |-> 0,
     buffer_start |-> 0, write_count |-> 0, function_command |-> 0,
     cmd_buffer |-> "gs", cmd_start |-> 0, value |-> {},
     latch_start_index |-> 0, index |-> 0, win_latch |-> << >>,
     win_bits |-> << >>, bus_log |-> << >>]

\* the chips that are full
ChipCountOfFloor(n) == n \div PIXEL_PER_CHIP

\* self.chip_count of __init__ (lines 364-366)
ChipCountOf(n) ==
    (n \div PIXEL_PER_CHIP) + (IF n % PIXEL_PER_CHIP > 0 THEN 1 ELSE 0)

\* the driver as __init__ leaves it (lines 354-384) for pixel_count = n
Constructed(n) ==
    /\ pixel_count = n
    /\ chip_count = ChipCountOf(n)
    /\ channel_count = n * COLORS_PER_PIXEL
    /\ buffer = Zeros(CHIP_GS_BUFFER_BYTE_COUNT * ChipCountOf(n))
    /\ buffer_fc = init_buffer_fc(Zeros(CHIP_BUFFER_BYTE_COUNT * ChipCountOf(n)),
                                  ChipCountOf(n))
    /\ spi_clock = 0 /\ spi_mosi = 0 /\ latch = 0 /\ spi_owner = "none"
    /\ init_step = "done" /\ push = "none" /\ pc = "ready" /\ ret_pc = "ready"
    /\ row = 0 /\ buffer_start = 0 /\ write_count = 0
    /\ function_command = 0 /\ cmd_buffer = "gs" /\ cmd_start = 0
    /\ value = {} /\ latch_start_index = 0 /\ index = 0
    /\ win_latch = << >> /\ win_bits = << >> /\ bus_log = << >>
    /\ last = NoCall /\ calls = 0
    /\ peer = IdleCaller

\* an accessor is called on a constructed driver that is not pushing
CanCall == init_step = "done" /\ pc = "ready" /\ calls < MaxCalls

(***************************************************************************)
(* Function-control accessors as operations                                *)
(***************************************************************************)
SetFcBits(ci, pbo, f, v) ==
    LET r == set_fc_bits_in_buffer(buffer_fc, ci, pbo, FC_FIELDS[f], v)
    IN  /\ CanCall
        /\ buffer_fc' = r.buffer
        /\ last' = [NoCall EXCEPT !.op = "set_fc_bits_in_buffer",
                                  !.status = r.status, !.chip_index = ci,
                                  !.part_bit_offset = pbo, !.field = f,
                                  !.value = v]
        /\ calls' = calls + 1
        /\ UNCHANGED << peer, sizeVars, buffer, pinVars, pushVars >>

GetFcBits(ci, pbo, f) ==
    LET r == get_fc_bits_in_buffer(buffer_fc, ci, pbo, FC_FIELDS[f])
    IN  /\ CanCall
        /\ last' = [NoCall EXCEPT !.op = "get_fc_bits_in_buffer",
                                  !.status = r.status, !.chip_index = ci,
                                  !.part_bit_offset = pbo, !.field = f,
                                  !.ret = r.value]
        /\ calls' = calls + 1
        /\ UNCHANGED << peer, sizeVars, buffer, buffer_fc, pinVars, pushVars >>

(***************************************************************************)
(* Inputs of the function-control accessors                                *)
(***************************************************************************)
\* values for a field: zero, top bit, all ones, and one too wide for the field
FcValueInputs(f) ==
    {0, 2 ^ (FC_FIELDS[f].length - 1), FC_FIELDS[f].mask, FC_FIELDS[f].mask + 2}

\* chip indices: every chip, the first index past the chain, and the negative
\* indices down to one before the chain
ChipIndexInputs == (-(chip_count + 1))..chip_count

\* << chip_index, part_bit_offset, field, value >>
AllSetFcInputs ==
    UNION { {<< 0, 0, f, v >> : v \in FcValueInputs(f)} : f \in FieldNames }
    \cup {<< ci, 0, "LODVTH", FC_FIELDS["LODVTH"].mask >> :
            ci \in ChipIndexInputs \ {0}}
    \cup {<< ci, 0, "LGSE2", FC_FIELDS["LGSE2"].mask >> :
            ci \in {chip_count - 1, -1}}
    \cup {<< 0, 1, "LGSE3", 1 >>, << 0, 1, "LGSE2", 7 >>, << 0, -1, "LODVTH", 3 >>}
    \cup {<< 0, 0, "CCR", 1023 >>, << 0, 0, "BC", 8 >>, << 0, 0, "LODVTH", 6 >>,
          << chip_count - 1, 0, "CCG", 1000 >>}

\* a few writes that leave the buffer in different states
EarlySetFcInputs ==
    {<< 0, 0, "CCR", 511 >>, << 0, 0, "BC", 0 >>, << 0, 0, "LODVTH", 5 >>,
     << chip_count - 1, 0, "LGSE2", 7 >>, << -1, 0, "LODVTH", 3 >>,
     << chip_count, 0, "LODVTH", 3 >>, << 0, 1, "LGSE2", 7 >>}

\* the last two calls of a run draw from all the inputs, the calls before
\* them from the few
SetFcInputs ==
    IF calls + 2 >= MaxCalls THEN AllSetFcInputs ELSE EarlySetFcInputs

\* << chip_index, part_bit_offset, field >>
AllGetFcInputs ==
    {<< ci, 0, "CCG" >> : ci \in ChipIndexInputs}
    \cup {<< 0, 0, f >> : f \in {"LODVTH", "LGSE2"}}

GetFcInputs ==
    IF calls + 2 >= MaxCalls THEN AllGetFcInputs ELSE {<< 0, 0, "CCG" >>}

InitFC == \E c \in 1..MaxChips : Constructed(c * PIXEL_PER_CHIP)

CallSetFcBits == \E a \in SetFcInputs : SetFcBits(a[1], a[2], a[3], a[4])
CallGetFcBits == \E a \in GetFcInputs : GetFcBits(a[1], a[2], a[3])

NextFC == CallSetFcBits \/ CallGetFcBits

SpecFC == InitFC /\ [][NextFC]_vars

(***************************************************************************)
(* Field writes at part_bit_offset 0 and the named setters (SpecFields)    *)
(***************************************************************************)
\* a call of one of the function-control setters, with result r
FcSetterCall(op, r, ci, f, v, ccs, en) ==
    /\ CanCall
    /\ buffer_fc' = r.buffer
    /\ last' = [NoCall EXCEPT !.op = op, !.status = r.status,
                              !.chip_index = ci, !.field = f, !.value = v,
                              !.triple = ccs, !.enable = en]
    /\ calls' = calls + 1
    /\ UNCHANGED << peer, sizeVars, buffer, pinVars, pushVars >>

\* the last call of a run draws from all the inputs, the calls before it
\* from a few that leave the buffer in different states
LateCall == calls + 1 >= MaxCalls

SetterChipInputs ==
    IF LateCall THEN {0, chip_count - 1, -1, chip_count} ELSE {0}

\* << chip_index, field, value >>: every field with values in and beyond its
\* width, and the fields next to bit 10 with values that reach past them
FieldWriteInputs ==
    IF LateCall
    THEN UNION { {<< 0, f, v >> : v \in FcValueInputs(f)} : f \in FieldNames }
         \cup {<< ci, "LGSE3", 3 >> : ci \in ChipIndexInputs}
         \cup {<< chip_count - 1, "LGSE1", 15 >>, << 0, "LGSE3", -1 >>,
               << 0, "ESPWM", 7 >>}
    ELSE {<< 0, "LGSE3", 3 >>, << chip_count - 1, "LGSE3", 3 >>,
          << 0, "CCB", 511 >>}

\* << CCR, CCG, CCB >>
CcInputs ==
    IF LateCall THEN {<< 511, 0, 256 >>, << 1023, 512, 1 >>}
    ELSE {<< 511, 511, 511 >>}

BcInputs == IF LateCall THEN {0, 7, 9} ELSE {7}

CallSetFcField ==
    \E a \in FieldWriteInputs :
        FcSetterCall("set_fc_bits_in_buffer",
                     set_fc_bits_in_buffer(buffer_fc, a[1], 0,
                                           FC_FIELDS[a[2]], a[3]),
                     a[1], a[2], a[3], << >>, FALSE)

CallSetFcCC ==
    \E ci \in SetterChipInputs, c \in CcInputs :
        FcSetterCall("set_fc_CC",
                     set_fc_CC(buffer_fc, ci, c[1], c[2], c[3]),
                     ci, "", 0, c, FALSE)

CallSetFcCCAll ==
    \E c \in CcInputs :
        FcSetterCall("set_fc_CC_all",
                     set_fc_CC_all(buffer_fc, chip_count, c[1], c[2], c[3]),
                     0, "", 0, c, FALSE)

CallSetFcBC ==
    \E ci \in SetterChipInputs, v \in BcInputs :
        FcSetterCall("set_fc_BC", set_fc_BC(buffer_fc, ci, v),
                     ci, "", v, << >>, FALSE)

CallSetFcBCAll ==
    \E v \in BcInputs :
        FcSetterCall("set_fc_BC_all", set_fc_BC_all(buffer_fc, chip_count, v),
                     0, "", v, << >>, FALSE)

CallSetFcESPWM ==
    \E ci \in SetterChipInputs, en \in BOOLEAN :
        FcSetterCall("set_fc_ESPWM", set_fc_ESPWM(buffer_fc, ci, en),
                     ci, "", 0, << >>, en)

CallSetFcESPWMAll ==
    \E en \in BOOLEAN :
        FcSetterCall("set_fc_ESPWM_all",
                     set_fc_ESPWM_all(buffer_fc, chip_count, en),
                     0, "", 0, << >>, en)

InitFields == \E c \in 1..MaxChips : Constructed(c * PIXEL_PER_CHIP)

NextFields ==
    \/ CallSetFcField
    \/ CallSetFcCC \/ CallSetFcCCAll
    \/ CallSetFcBC \/ CallSetFcBCAll
    \/ CallSetFcESPWM \/ CallSetFcESPWMAll

SpecFields == InitFields /\ [][NextFields]_vars

(***************************************************************************)
(* Pixel accessors as operations                                           *)
(***************************************************************************)
SetPixel(pi, v) ==
    LET r == set_pixel(buffer, pixel_count, pi, v)
    IN  /\ CanCall
        /\ buffer' = r.buffer
        /\ last' = [NoCall EXCEPT !.op = "set_pixel", !.status = r.status,
                                  !.pixel_index = pi, !.triple = v]
        /\ calls' = calls + 1
        /\ UNCHANGED << peer, sizeVars, buffer_fc, pinVars, pushVars >>

SetItem(key, v) ==
    LET r == setitem(buffer, pixel_count, key, v)
    IN  /\ CanCall
        /\ buffer' = r.buffer
        /\ last' = [NoCall EXCEPT !.op = "__setitem__", !.status = r.status,
                                  !.pixel_index = key, !.triple = v]
        /\ calls' = calls + 1
        /\ UNCHANGED << peer, sizeVars, buffer_fc, pinVars, pushVars >>

SetChannel(ci, v) ==
    LET r == set_channel(buffer, channel_count, ci, v)
    IN  /\ CanCall
        /\ buffer' = r.buffer
        /\ last' = [NoCall EXCEPT !.op = "set_channel", !.status = r.status,
                                  !.channel_index = ci, !.value = v]
        /\ calls' = calls + 1
        /\ UNCHANGED << peer, sizeVars, buffer_fc, pinVars, pushVars >>

(***************************************************************************)
(* Inputs of the pixel accessors                                           *)
(***************************************************************************)
\* components outside their range
BadComponents == {IntC(-1), IntC(65536), FloatC(3, 2), FloatC(-1, 2)}

\* all-int, all-float and mixed triples in range (among them the tuples of
\* examples/develop_and_tests.py lines 74-92)
GoodTriples ==
    { << IntC(100), IntC(0), IntC(0) >>, << IntC(0), IntC(1), IntC(0) >>,
      << IntC(0), IntC(0), IntC(100) >>, << IntC(10), IntC(10), IntC(10) >>,
      << FloatC(0, 1), FloatC(0, 1), FloatC(1, 50000) >>,
      << IntC(65535), IntC(256), IntC(255) >>,
      << FloatC(1, 1), FloatC(1, 2), FloatC(1, 4) >>,
      << IntC(65535), FloatC(1, 2), IntC(258) >>,
      << FloatC(1, 1), IntC(513), FloatC(3, 4) >> }

\* one component out of range, at each of the three positions
BadTriples ==
    UNION { { << c, IntC(7), FloatC(1, 2) >>, << IntC(7), c, FloatC(1, 2) >>,
              << FloatC(1, 2), IntC(7), c >> } : c \in BadComponents }
    \cup { << IntC(-1), IntC(65536), FloatC(3, 2) >> }

\* tuples that are not of length 3
ShortTriples == { << IntC(1), IntC(2) >>, << IntC(1), IntC(2), IntC(3), IntC(4) >> }

\* pixel indices: first and last pixel, the padding slots of the last chip,
\* the index one past the buffer, and negative indices
PixelIndexInputs ==
    {-pixel_count, -1, 0, pixel_count - 1, pixel_count,
     chip_count * PIXEL_PER_CHIP - 1, chip_count * PIXEL_PER_CHIP}

ValidPixelIndex(pi) == 0 <= pi /\ pi < pixel_count

\* << pixel_index, value >>
PixelInputs ==
    {<< pi, v >> : pi \in {i \in PixelIndexInputs : ValidPixelIndex(i)},
                   v \in GoodTriples \cup BadTriples \cup ShortTriples}
    \cup {<< pi, v >> : pi \in {i \in PixelIndexInputs : ~ValidPixelIndex(i)},
                        v \in { << IntC(100), FloatC(1, 2), IntC(65535) >>,
                                << IntC(-1), IntC(0), IntC(0) >> }}

\* pixel counts: one pixel, full chips, and one pixel more than full chips
PixelCountInputs ==
    {1} \cup {c * PIXEL_PER_CHIP : c \in 1..MaxChips}
        \cup {(c - 1) * PIXEL_PER_CHIP + 1 : c \in 1..MaxChips}

InitPixel == \E n \in PixelCountInputs : Constructed(n)

CallSetPixel == \E a \in PixelInputs : SetPixel(a[1], a[2])
CallSetItem == \E a \in PixelInputs : SetItem(a[1], a[2])

NextPixel == CallSetPixel \/ CallSetItem

SpecPixel == InitPixel /\ [][NextPixel]_vars

(***************************************************************************)
(* set_channel on its own (SpecChannel)                                    *)
(***************************************************************************)
\* channel indices: the three channels of the first pixel, the first of the
\* second, the last channel, the first index past the channels, the last
\* slot of the buffer, and a negative index
ChannelIndexInputs ==
    {-1, 0, 1, 2, 3, channel_count - 1, channel_count,
     COLORS_PER_PIXEL * PIXEL_PER_CHIP * chip_count - 1}

ChannelValueInputs == {-1, 0, 513, 65535, 65536}

\* << channel_index, value >>; the last two calls of a run draw from all the
\* inputs
ChannelInputs ==
    IF calls + 2 >= MaxCalls
    THEN ChannelIndexInputs \X ChannelValueInputs
    ELSE {<< 0, 258 >>, << 1, 65535 >>, << channel_count - 1, 1 >>}

CallSetChannel == \E a \in ChannelInputs : SetChannel(a[1], a[2])

InitChannel == \E n \in PixelCountInputs : Constructed(n)

NextChannel == CallSetChannel

SpecChannel == InitChannel /\ [][NextChannel]_vars

(***************************************************************************)
(* Item access: pixels[key] = value and pixels[key]                        *)
(***************************************************************************)
GetItem(key) ==
    LET r == getitem(buffer, pixel_count, key)
    IN  /\ CanCall
        /\ last' = [NoCall EXCEPT !.op = "__getitem__", !.status = r.status,
                                  !.pixel_index = key, !.ret_triple = r.value]
        /\ calls' = calls + 1
        /\ UNCHANGED << peer, sizeVars, buffer, buffer_fc, pinVars, pushVars >>

\* integer triples with distinct components and distinct bytes
ItemTriples ==
    { << IntC(1), IntC(2), IntC(3) >>, << IntC(65535), IntC(256), IntC(255) >>,
      << IntC(0), IntC(0), IntC(0) >>, << IntC(4660), IntC(22136), IntC(39612) >> }

\* keys: the first pixels, the last one, and the indices around the range
ItemKeyInputs == {-1, 0, 1, 2, pixel_count - 1, pixel_count}

CallSetItemInt == \E k \in ItemKeyInputs : \E v \in ItemTriples : SetItem(k, v)
CallGetItem == \E k \in ItemKeyInputs : GetItem(k)

InitItem == \E n \in PixelCountInputs : Constructed(n)

NextItem == CallSetItemInt \/ CallGetItem

SpecItem == InitItem /\ [][NextItem]_vars

(***************************************************************************)
(* The bus: command windows (_write_buffer_with_function_command)          *)
(***************************************************************************)
BufOf(name) == IF name = "gs" THEN buffer ELSE buffer_fc

\* one entry of bus_log: a bulk transfer (write_readinto) or a command window
BulkEvent(name, start, count) ==
    [kind |-> "bulk", buf |-> name, cmd |-> 0, start |-> start,
     count |-> count, edges |-> 0, bits |-> << >>]

RECURSIVE Ones(_)
Ones(s) == IF s = << >> THEN 0 ELSE Head(s) + Ones(Tail(s))

WindowEvent ==
    [kind |-> "window", buf |-> cmd_buffer, cmd |-> function_command,
     start |-> cmd_start, count |-> CHIP_FUNCTION_CMD_BYTE_COUNT,
     edges |-> Ones(win_latch), bits |-> win_bits]

\* the call _write_buffer_with_function_command(fc, start, name), returning to ret
EnterWindow(fc, start, name, ret) ==
    /\ function_command' = fc
    /\ cmd_start' = start
    /\ cmd_buffer' = name
    /\ ret_pc' = ret
    /\ pc' = "w_begin"
    /\ value' = {} /\ latch_start_index' = 0 /\ index' = 0
    /\ win_latch' = << >> /\ win_bits' = << >>

\* line 496: the bit index at which the latch line is raised
latch_start_off_by_one(fc) == CHIP_FUNCTION_CMD_BIT_COUNT - fc - 1

latch_start(fc) == CHIP_FUNCTION_CMD_BIT_COUNT - fc

\* lines 486-491: value = buffer[start] << 8 | buffer[start + 1]; clock = 0
WBegin ==
    /\ pc = "w_begin"
    /\ IndexOk(BufOf(cmd_buffer), cmd_start)
    /\ IndexOk(BufOf(cmd_buffer), cmd_start + 1)
    /\ value' = Shl(BitsOf(Item(BufOf(cmd_buffer), cmd_start), 8), 8)
                \cup BitsOf(Item(BufOf(cmd_buffer), cmd_start + 1), 8)
    /\ spi_clock' = 0
    /\ pc' = "w_mosi0"
    /\ UNCHANGED << peer, sizeVars, buffer, buffer_fc, spi_mosi, latch, spi_owner,
                    init_step, push, ret_pc, passVars, function_command,
                    cmd_buffer, cmd_start, latch_start_index, index, win_latch,
                    win_bits, bus_log, last, calls >>

\* lines 486-489: buffer[start] or buffer[start + 1] raises IndexError, which
\* no caller catches: the push ends, and __init__ with it when it made the call
WBeginRaises ==
    /\ pc = "w_begin"
    /\ ~(/\ IndexOk(BufOf(cmd_buffer), cmd_start)
         /\ IndexOk(BufOf(cmd_buffer), cmd_start + 1))
    /\ last' = [NoCall EXCEPT
                  !.op = IF init_step = "done" THEN push ELSE "__init__",
                  !.status = "IndexError"]
    /\ init_step' = IF init_step = "done" THEN "done" ELSE "failed"
    /\ push' = "none" /\ pc' = "ready" /\ ret_pc' = "ready"
    /\ row' = 0 /\ buffer_start' = 0 /\ write_count' = 0
    /\ function_command' = 0 /\ cmd_buffer' = "gs" /\ cmd_start' = 0
    /\ value' = {} /\ latch_start_index' = 0 /\ index' = 0
    /\ win_latch' = << >> /\ win_bits' = << >> /\ bus_log' = << >>
    /\ UNCHANGED << peer, sizeVars, buffer, buffer_fc, pinVars, calls >>

\* line 494: mosi = 0
WMosi0 ==
    /\ pc = "w_mosi0"
    /\ spi_mosi' = 0
    /\ pc' = "w_latch0"
    /\ UNCHANGED << peer, sizeVars, buffer, buffer_fc, spi_clock, latch, spi_owner,
                    init_step, push, ret_pc, passVars, windowVars, bus_log,
                    last, calls >>

\* lines 495-497: latch = 0; latch_start_index = 16 - function_command
WLatch0 ==
    /\ pc = "w_latch0"
    /\ latch' = 0
    /\ latch_start_index' = latch_start(function_command)
    /\ index' = 0
    /\ pc' = "w_loop"
    /\ UNCHANGED << peer, sizeVars, buffer, buffer_fc, spi_clock, spi_mosi, spi_owner,
                    init_step, push, ret_pc, passVars, function_command,
                    cmd_buffer, cmd_start, value, win_latch, win_bits, bus_log,
                    last, calls >>

\* lines 497-499: the loop goes on; raise the latch line at latch_start_index
WLoop ==
    /\ pc = "w_loop"
    /\ index < CHIP_FUNCTION_CMD_BIT_COUNT
    /\ latch' = IF latch_start_index = index THEN 1 ELSE latch
    /\ pc' = "w_data"
    /\ UNCHANGED << peer, sizeVars, buffer, buffer_fc, spi_clock, spi_mosi, spi_owner,
                    init_step, push, ret_pc, passVars, windowVars, bus_log,
                    last, calls >>

\* the least significant bit first
WDataLsbFirst ==
    /\ pc = "w_data"
    /\ spi_mosi' = IF 0 \in value THEN 1 ELSE 0
    /\ value' = Shr(value, 1)
    /\ pc' = "w_clock_high"
    /\ UNCHANGED << peer, sizeVars, buffer, buffer_fc, spi_clock, latch, spi_owner,
                    init_step, push, ret_pc, passVars, function_command,
                    cmd_buffer, cmd_start, latch_start_index, index, win_latch,
                    win_bits, bus_log, last, calls >>

\* lines 501-506: mosi = bit 15 of value; value <<= 1
WData ==
    /\ pc = "w_data"
    /\ spi_mosi' = IF 15 \in value THEN 1 ELSE 0
    /\ value' = Shl(value, 1)
    /\ pc' = "w_clock_high"
    /\ UNCHANGED << peer, sizeVars, buffer, buffer_fc, spi_clock, latch, spi_owner,
                    init_step, push, ret_pc, passVars, function_command,
                    cmd_buffer, cmd_start, latch_start_index, index, win_latch,
                    win_bits, bus_log, last, calls >>

\* line 509: clock = 1, the rising edge at which the chip samples data and latch
WClockHigh ==
    /\ pc = "w_clock_high"
    /\ spi_clock' = 1
    /\ win_latch' = Append(win_latch, latch)
    /\ win_bits' = Append(win_bits, spi_mosi)
    /\ pc' = "w_clock_low"
    /\ UNCHANGED << peer, sizeVars, buffer, buffer_fc, spi_mosi, latch, spi_owner,
                    init_step, push, ret_pc, passVars, function_command,
                    cmd_buffer, cmd_start, value, latch_start_index, index,
                    bus_log, last, calls >>

\* the clock line is left high at the end of the iteration
WClockStaysHigh ==
    /\ pc = "w_clock_low"
    /\ spi_clock' = 1
    /\ index' = index + 1
    /\ pc' = "w_loop"
    /\ UNCHANGED << peer, sizeVars, buffer, buffer_fc, spi_mosi, latch, spi_owner,
                    init_step, push, ret_pc, passVars, function_command,
                    cmd_buffer, cmd_start, value, latch_start_index, win_latch,
                    win_bits, bus_log, last, calls >>

\* line 516: clock = 0, and the next iteration
WClockLow ==
    /\ pc = "w_clock_low"
    /\ spi_clock' = 0
    /\ index' = index + 1
    /\ pc' = "w_loop"
    /\ UNCHANGED << peer, sizeVars, buffer, buffer_fc, spi_mosi, latch, spi_owner,
                    init_step, push, ret_pc, passVars, function_command,
                    cmd_buffer, cmd_start, value, latch_start_index, win_latch,
                    win_bits, bus_log, last, calls >>

\* line 518: after the loop latch = 0, and the window returns to its caller
WEnd ==
    /\ pc = "w_loop"
    /\ index = CHIP_FUNCTION_CMD_BIT_COUNT
    /\ latch' = 0
    /\ bus_log' = IF push = "window" THEN << >> ELSE Append(bus_log, WindowEvent)
    /\ pc' = ret_pc
    /\ ret_pc' = "ready"
    /\ push' = IF push = "window" THEN "none" ELSE push
    /\ function_command' = 0 /\ cmd_buffer' = "gs" /\ cmd_start' = 0
    /\ value' = {} /\ latch_start_index' = 0 /\ index' = 0
    /\ win_latch' = << >> /\ win_bits' = << >>
    /\ UNCHANGED << peer, sizeVars, buffer, buffer_fc, spi_clock, spi_mosi, spi_owner,
                    init_step, passVars, last, calls >>

WindowStep ==
    \/ WBegin \/ WMosi0 \/ WLatch0 \/ WLoop \/ WData
    \/ WClockHigh \/ WClockLow \/ WEnd

(***************************************************************************)
(* Grayscale pass (show, _write_buffer_GS) and function-control pass       *)
(* (update_fc, _write_buffer_FC)                                           *)
(***************************************************************************)
\* lines 389-391 and 436-438: write_count
pass_write_count_less_chip ==
    (CHIP_BUFFER_BYTE_COUNT * chip_count) - CHIP_BUFFER_BYTE_COUNT

pass_write_count ==
    (CHIP_BUFFER_BYTE_COUNT * chip_count) - CHIP_FUNCTION_CMD_BYTE_COUNT

\* lines 425-430: the opcode of the window that ends row index
gs_function_command_first(r) == IF r = 0 THEN FC__LATGS ELSE FC__WRTGS

gs_function_command(r) ==
    IF r = PIXEL_PER_CHIP - 1 THEN FC__LATGS ELSE FC__WRTGS

\* lines 441, 475: the opcodes of the two windows of the function-control pass
fc_enable_command_wrtfc == FC__WRTFC

fc_enable_command == FC__FCWRTEN
fc_commit_command == FC__WRTFC

\* a push can start: from __init__ at its place, or on the constructed driver
CanPush(steps) == pc = "ready" /\ init_step \in steps

\* __init__ with a single show()
NextInitStepOneShow ==
    CASE init_step = "init_buffer_fc" -> "update_fc"
      [] init_step = "update_fc" -> "show"
      [] OTHER -> "done"

\* the position in __init__ after the call at init_step has returned
NextInitStep ==
    CASE init_step = "init_buffer_fc" -> "update_fc"
      [] init_step = "update_fc" -> "show"
      [] init_step = "show" -> "show_again"
      [] OTHER -> "done"

\* show(): lines 388-393, up to the first try_lock
StartShow ==
    /\ CanPush({"show", "show_again", "done"})
    /\ push' = "show"
    /\ buffer_start' = 0
    /\ write_count' = pass_write_count
    /\ row' = 0
    /\ bus_log' = << >>
    /\ pc' = "gs_lock"
    /\ UNCHANGED << peer, sizeVars, buffer, buffer_fc, pinVars, init_step, ret_pc,
                    windowVars, last, calls >>

\* line 396: try_lock succeeds (while it fails the loop spins)
GsLock ==
    /\ pc = "gs_lock"
    /\ spi_owner = "none"
    /\ spi_owner' = "self"
    /\ pc' = "gs_write"
    /\ UNCHANGED << peer, sizeVars, buffer, buffer_fc, spi_clock, spi_mosi, latch,
                    init_step, push, ret_pc, passVars, windowVars, bus_log,
                    last, calls >>

\* lines 413-418: write_readinto of write_count bytes from buffer_start
GsWrite ==
    /\ pc = "gs_write"
    /\ bus_log' = Append(bus_log, BulkEvent("gs", buffer_start, write_count))
    /\ pc' = "gs_unlock"
    /\ UNCHANGED << peer, sizeVars, buffer, buffer_fc, pinVars, init_step, push,
                    ret_pc, passVars, windowVars, last, calls >>

\* the bus stays locked after the bulk transfer
GsUnlockKeepsLock ==
    /\ pc = "gs_unlock"
    /\ buffer_start' = buffer_start + write_count
    /\ EnterWindow(gs_function_command(row), buffer_start + write_count,
                   "gs", "gs_next")
    /\ UNCHANGED << peer, sizeVars, buffer, buffer_fc, pinVars, init_step, push, row,
                    write_count, bus_log, last, calls >>

\* lines 420-430: unlock, buffer_start += write_count, and the window call
GsUnlock ==
    /\ pc = "gs_unlock"
    /\ spi_owner' = "none"
    /\ buffer_start' = buffer_start + write_count
    /\ EnterWindow(gs_function_command(row), buffer_start + write_count,
                   "gs", "gs_next")
    /\ UNCHANGED << peer, sizeVars, buffer, buffer_fc, spi_clock, spi_mosi, latch,
                    init_step, push, row, write_count, bus_log, last, calls >>

\* buffer_start is not advanced past the window's two bytes
GsNextNoAdvance ==
    /\ pc = "gs_next"
    /\ IF row + 1 < PIXEL_PER_CHIP
       THEN /\ buffer_start' = buffer_start
            /\ row' = row + 1
            /\ pc' = "gs_lock"
            /\ UNCHANGED << init_step, push, write_count, bus_log >>
       ELSE /\ buffer_start' = 0 /\ row' = 0 /\ write_count' = 0
            /\ bus_log' = << >>
            /\ pc' = "ready"
            /\ push' = "none"
            /\ init_step' = NextInitStep
    /\ UNCHANGED << peer, sizeVars, buffer, buffer_fc, pinVars, ret_pc, windowVars,
                    last, calls >>

\* the loop ends one row early
GsNextStopsEarly ==
    /\ pc = "gs_next"
    /\ IF row + 2 < PIXEL_PER_CHIP
       THEN /\ buffer_start' = buffer_start + CHIP_FUNCTION_CMD_BYTE_COUNT
            /\ row' = row + 1
            /\ pc' = "gs_lock"
            /\ UNCHANGED << init_step, push, write_count, bus_log >>
       ELSE /\ buffer_start' = 0 /\ row' = 0 /\ write_count' = 0
            /\ bus_log' = << >>
            /\ pc' = "ready"
            /\ push' = "none"
            /\ init_step' = NextInitStep
    /\ UNCHANGED << peer, sizeVars, buffer, buffer_fc, pinVars, ret_pc, windowVars,
                    last, calls >>

\* line 431 and the loop: buffer_start += 2; next row, or return after row 15
GsNext ==
    /\ pc = "gs_next"
    /\ IF row + 1 < PIXEL_PER_CHIP
       THEN /\ buffer_start' = buffer_start + CHIP_FUNCTION_CMD_BYTE_COUNT
            /\ row' = row + 1
            /\ pc' = "gs_lock"
            /\ UNCHANGED << init_step, push, write_count, bus_log >>
       ELSE /\ buffer_start' = 0 /\ row' = 0 /\ write_count' = 0
            /\ bus_log' = << >>
            /\ pc' = "ready"
            /\ push' = "none"
            /\ init_step' = NextInitStep
    /\ UNCHANGED << peer, sizeVars, buffer, buffer_fc, pinVars, ret_pc, windowVars,
                    last, calls >>

\* update_fc(): lines 435-442, the FCWRTEN window at the start of the buffer
StartUpdateFc ==
    /\ CanPush({"update_fc", "done"})
    /\ push' = "update_fc"
    /\ buffer_start' = 0
    /\ write_count' = pass_write_count
    /\ bus_log' = << >>
    /\ EnterWindow(fc_enable_command, 0, "fc", "fc_lock")
    /\ UNCHANGED << peer, sizeVars, buffer, buffer_fc, pinVars, init_step, row,
                    last, calls >>

\* line 446: try_lock succeeds
FcLock ==
    /\ pc = "fc_lock"
    /\ spi_owner = "none"
    /\ spi_owner' = "self"
    /\ pc' = "fc_write"
    /\ UNCHANGED << peer, sizeVars, buffer, buffer_fc, spi_clock, spi_mosi, latch,
                    init_step, push, ret_pc, passVars, windowVars, bus_log,
                    last, calls >>

\* lines 463-468: write_readinto of write_count bytes of the fc buffer
FcWrite ==
    /\ pc = "fc_write"
    /\ bus_log' = Append(bus_log, BulkEvent("fc", buffer_start, write_count))
    /\ pc' = "fc_unlock"
    /\ UNCHANGED << peer, sizeVars, buffer, buffer_fc, pinVars, init_step, push,
                    ret_pc, passVars, windowVars, last, calls >>

\* lines 470-476: unlock, buffer_start += write_count, and the WRTFC window
FcUnlock ==
    /\ pc = "fc_unlock"
    /\ spi_owner' = "none"
    /\ buffer_start' = buffer_start + write_count
    /\ EnterWindow(fc_commit_command, buffer_start + write_count, "fc",
                   "fc_done")
    /\ UNCHANGED << peer, sizeVars, buffer, buffer_fc, spi_clock, spi_mosi, latch,
                    init_step, push, row, write_count, bus_log, last, calls >>

\* line 477: _write_buffer_FC and update_fc return
FcDone ==
    /\ pc = "fc_done"
    /\ buffer_start' = 0 /\ write_count' = 0
    /\ bus_log' = << >>
    /\ pc' = "ready"
    /\ push' = "none"
    /\ init_step' = NextInitStep
    /\ UNCHANGED << peer, sizeVars, buffer, buffer_fc, pinVars, ret_pc, row,
                    windowVars, last, calls >>

\* the exception of a bulk transfer leaves the pass with the lock as it is
BulkRaisesNoFinally ==
    /\ pc \in {"gs_write", "fc_write"}
    /\ last' = [NoCall EXCEPT
                  !.op = IF init_step = "done" THEN push ELSE "__init__",
                  !.status = "Exception"]
    /\ init_step' = IF init_step = "done" THEN "done" ELSE "failed"
    /\ push' = "none" /\ pc' = "ready" /\ ret_pc' = "ready"
    /\ row' = 0 /\ buffer_start' = 0 /\ write_count' = 0
    /\ bus_log' = << >>
    /\ UNCHANGED << peer, sizeVars, buffer, buffer_fc, pinVars, windowVars, calls >>

\* lines 413-423 and 463-473: configure or write_readinto of the SPI object
\* raises; the finally clause unlocks the bus and the exception, which no
\* caller catches, ends the push, and __init__ with it when it made the call
BulkRaises ==
    /\ pc \in {"gs_write", "fc_write"}
    /\ spi_owner' = "none"
    /\ last' = [NoCall EXCEPT
                  !.op = IF init_step = "done" THEN push ELSE "__init__",
                  !.status = "Exception"]
    /\ init_step' = IF init_step = "done" THEN "done" ELSE "failed"
    /\ push' = "none" /\ pc' = "ready" /\ ret_pc' = "ready"
    /\ row' = 0 /\ buffer_start' = 0 /\ write_count' = 0
    /\ bus_log' = << >>
    /\ UNCHANGED << peer, sizeVars, buffer, buffer_fc, spi_clock, spi_mosi, latch,
                    windowVars, calls >>

GsStep == StartShow \/ GsLock \/ GsWrite \/ GsUnlock \/ GsNext
FcStep == StartUpdateFc \/ FcLock \/ FcWrite \/ FcUnlock \/ FcDone

\* another user of the shared SPI bus takes and releases its lock
OtherLock ==
    /\ spi_owner = "none"
    /\ spi_owner' = "other"
    /\ UNCHANGED << peer, sizeVars, buffer, buffer_fc, spi_clock, spi_mosi, latch,
                    pushVars, last, calls >>

OtherUnlock ==
    /\ spi_owner = "other"
    /\ spi_owner' = "none"
    /\ UNCHANGED << peer, sizeVars, buffer, buffer_fc, spi_clock, spi_mosi, latch,
                    pushVars, last, calls >>

(***************************************************************************)
(* Construction (__init__) and the driver as a whole                       *)
(***************************************************************************)
\* line 378: self._init_buffer_fc()
InitBufferFc ==
    /\ init_step = "init_buffer_fc"
    /\ pc = "ready"
    /\ buffer_fc' = init_buffer_fc(buffer_fc, chip_count)
    /\ init_step' = NextInitStep
    /\ UNCHANGED << peer, sizeVars, buffer, pinVars, push, pc, ret_pc, passVars,
                    windowVars, bus_log, last, calls >>

\* __init__(pixel_count = n) up to line 377: sizes and zeroed buffers; the pins
\* and the bus are handed in by the caller in any state
Entered(n) ==
    /\ pixel_count = n
    /\ chip_count = ChipCountOf(n)
    /\ channel_count = n * COLORS_PER_PIXEL
    /\ buffer = Zeros(CHIP_GS_BUFFER_BYTE_COUNT * ChipCountOf(n))
    /\ buffer_fc = Zeros(CHIP_BUFFER_BYTE_COUNT * ChipCountOf(n))
    /\ spi_clock \in {0, 1} /\ spi_mosi \in {0, 1} /\ latch \in {0, 1}
    /\ spi_owner \in {"none", "other"}
    /\ init_step = "init_buffer_fc" /\ push = "none" /\ pc = "ready"
    /\ ret_pc = "ready"
    /\ row = 0 /\ buffer_start = 0 /\ write_count = 0
    /\ function_command = 0 /\ cmd_buffer = "gs" /\ cmd_start = 0
    /\ value = {} /\ latch_start_index = 0 /\ index = 0
    /\ win_latch = << >> /\ win_bits = << >> /\ bus_log = << >>
    /\ last = NoCall /\ calls = 0
    /\ peer = IdleCaller

Init == \E n \in PixelCountInputs : Entered(n)

\* accessor calls made on the driver between pushes
DriverPixelInputs ==
    { << pixel_count - 1, << IntC(65535), FloatC(1, 2), IntC(258) >> >> }
DriverFcInputs == { << chip_count - 1, 0, "BC", 7 >> }

\* << channel_index, value >>
DriverChannelInputs == { << 0, 513 >> }

DriverSetChannel == \E a \in DriverChannelInputs : SetChannel(a[1], a[2])
DriverSetPixel == \E a \in DriverPixelInputs : SetPixel(a[1], a[2])
DriverSetFcBits == \E a \in DriverFcInputs : SetFcBits(a[1], a[2], a[3], a[4])

Next ==
    \/ InitBufferFc
    \/ GsStep \/ FcStep \/ WindowStep
    \/ DriverSetPixel \/ DriverSetFcBits \/ DriverSetChannel
    \/ OtherLock \/ OtherUnlock

Spec == Init /\ [][Next]_vars

\* construction with every pixel_count from 0 on, and the pushes after it
InitAny == \E n \in {0} \cup PixelCountInputs : Entered(n)

NextAny ==
    \/ InitBufferFc
    \/ GsStep \/ FcStep \/ WindowStep \/ WBeginRaises
    \/ OtherLock \/ OtherUnlock

SpecAny == InitAny /\ [][NextAny]_vars

\* the driver's thread keeps running; a caller that keeps calling try_lock is
\* granted the lock eventually, and the other users of the bus release it
DriverStep ==
    \/ InitBufferFc \/ StartShow \/ StartUpdateFc
    \/ GsWrite \/ GsUnlock \/ GsNext \/ FcWrite \/ FcUnlock \/ FcDone
    \/ WindowStep

Running == push # "none" /\ DriverStep

Fairness ==
    /\ WF_vars(Running)
    /\ SF_vars(GsLock)
    /\ SF_vars(FcLock)
    /\ WF_vars(OtherUnlock)

\* construction and pushes; what a push does never depends on the payload
NextLive ==
    \/ InitBufferFc
    \/ GsStep \/ FcStep \/ WindowStep
    \/ OtherLock \/ OtherUnlock

SpecLive == Init /\ [][NextLive]_vars /\ Fairness

(***************************************************************************)
(* Two callers of one driver (SpecTwo).  show(), update_fc() and the       *)
(* command window keep their position in locals, so each caller has its    *)
(* own; the pins, the SPI object and its lock, and the buffers belong to   *)
(* the driver.  The variables of the push are those of the caller that is  *)
(* running, peer holds those of the caller that is not.                    *)
(***************************************************************************)
\* the locals of the running caller
RunningCaller ==
    [push |-> push, pc |-> pc, ret_pc |-> ret_pc, row |-> row,
     buffer_start |-> buffer_start, write_count |-> write_count,
     function_command |-> function_command, cmd_buffer |-> cmd_buffer,
     cmd_start |-> cmd_start, value |-> value,
     latch_start_index |-> latch_start_index, index |-> index,
     win_latch |-> win_latch, win_bits |-> win_bits, bus_log |-> bus_log]

\* Nothing in show(), update_fc() or the window keeps the scheduler from
\* letting the other caller run between any two statements.  The switches
\* explored are those between two bus operations of the running caller and
\* the one in the middle of the first clock pulse of a window.
SwitchPoint ==
    \/ pc \in {"ready", "gs_lock", "fc_lock", "gs_next", "fc_done", "w_begin"}
    \/ pc = "w_clock_low" /\ index = 0

Switch ==
    /\ init_step = "done"
    /\ SwitchPoint
    /\ peer' = RunningCaller
    /\ push' = peer.push /\ pc' = peer.pc /\ ret_pc' = peer.ret_pc
    /\ row' = peer.row /\ buffer_start' = peer.buffer_start
    /\ write_count' = peer.write_count
    /\ function_command' = peer.function_command
    /\ cmd_buffer' = peer.cmd_buffer /\ cmd_start' = peer.cmd_start
    /\ value' = peer.value /\ latch_start_index' = peer.latch_start_index
    /\ index' = peer.index
    /\ win_latch' = peer.win_latch /\ win_bits' = peer.win_bits
    /\ bus_log' = peer.bus_log
    /\ spi_owner' = CASE spi_owner = "self" -> "peer"
                      [] spi_owner = "peer" -> "self"
                      [] OTHER -> spi_owner
    /\ UNCHANGED << sizeVars, buffer, buffer_fc, spi_clock, spi_mosi, latch,
                    init_step, last, calls >>

InitTwo == Constructed(PIXEL_PER_CHIP)

NextTwo == GsStep \/ FcStep \/ WindowStep \/ Switch

SpecTwo == InitTwo /\ [][NextTwo]_vars

\* construction and pushes on a bus whose transfers can fail
NextLock ==
    \/ InitBufferFc
    \/ GsStep \/ FcStep \/ WindowStep
    \/ BulkRaises
    \/ OtherLock \/ OtherUnlock

SpecLock == Init /\ [][NextLock]_vars

(***************************************************************************)
(* One command window at a time, with every documented opcode              *)
(***************************************************************************)
DocumentedOpcodes ==
    {FC__WRTGS, FC__LATGS, FC__WRTFC, FC__LINERESET, FC__READFC, FC__TMGRST,
     FC__FCWRTEN}

\* << function_command, buffer_start, buffer >>: the windows of the two passes
\* over a chain of this length, with every documented opcode
WindowInputs ==
    {<< fc, s, "fc" >> : fc \in DocumentedOpcodes, s \in {0, pass_write_count}}
    \cup {<< fc, s, "gs" >> : fc \in DocumentedOpcodes,
                              s \in {pass_write_count,
                                     CHIP_GS_BUFFER_BYTE_COUNT * chip_count
                                     - CHIP_FUNCTION_CMD_BYTE_COUNT}}

\* _write_buffer_with_function_command(fc, start, buffer) is called
CallWindow ==
    \E a \in WindowInputs :
        /\ pc = "ready" /\ init_step = "done"
        /\ push' = "window"
        /\ bus_log' = << >>
        /\ EnterWindow(a[1], a[2], a[3], "ready")
        /\ UNCHANGED << peer, sizeVars, buffer, buffer_fc, pinVars, init_step,
                        passVars, last, calls >>

InitCmd == \E c \in 1..MaxChips : Constructed(c * PIXEL_PER_CHIP)

NextCmd == CallWindow \/ WindowStep

SpecCmd == InitCmd /\ [][NextCmd]_vars

\* opcodes the register table does not define: below, between and above the
\* documented ones
UndocumentedOpcodes == {0, 2, 4, 16, 17}

\* _write_buffer_with_function_command is called with such an opcode
CallWindowUndocumented ==
    \E fc \in UndocumentedOpcodes, s \in {0, pass_write_count} :
        /\ pc = "ready" /\ init_step = "done"
        /\ push' = "window"
        /\ bus_log' = << >>
        /\ EnterWindow(fc, s, "fc", "ready")
        /\ UNCHANGED << peer, sizeVars, buffer, buffer_fc, pinVars, init_step,
                        passVars, last, calls >>

NextCmdAny == CallWindow \/ CallWindowUndocumented \/ WindowStep

SpecCmdAny == InitCmd /\ [][NextCmdAny]_vars

(***************************************************************************)
(* Properties of the function-control accessors (SpecFC)                   *)
(***************************************************************************)
\* the step is a call of one of the accessors ops
Called(ops) == calls' = calls + 1 /\ last'.op \in ops

ValidChipIndex(ci) == 0 <= ci /\ ci < chip_count

\* bit i of chip c's 48-bit register, read from the bytes of b
RegBit(b, c, i) ==
    (b[c * 6 + 5 - (i \div 8)] \div (2 ^ (i % 8))) % 2

\* C1: for chip_index in [0, chip_count), a field of _FC_FIELDS and a value
\* in [0, 2^length), set_fc_bits_in_buffer followed by get_fc_bits_in_buffer
\* returns exactly the value, whatever the buffer held before.
C1_SetThenGet ==
    ( /\ last.op = "set_fc_bits_in_buffer"
      /\ last.part_bit_offset = 0
      /\ ValidChipIndex(last.chip_index)
      /\ 0 <= last.value
      /\ last.value < 2 ^ FC_FIELDS[last.field].length )
    => /\ last.status = "ok"
       /\ get_fc_bits_in_buffer(buffer_fc, last.chip_index, 0,
                                FC_FIELDS[last.field])
            = [status |-> "ok", value |-> last.value]

\* a second write, of all ones to a 9-bit field, over a buffer that is no
\* longer the default one
C1_Witness ==
    /\ calls = 2
    /\ last.op = "set_fc_bits_in_buffer" /\ last.status = "ok"
    /\ last.chip_index = 0 /\ last.field = "CCG" /\ last.value = 511
    /\ buffer_fc # init_buffer_fc(Zeros(BufLen(buffer_fc)), chip_count)
    /\ get_fc_bits_in_buffer(buffer_fc, 0, 0, FC_FIELDS["CCR"]).value # 256

\* C2: set_fc_bits_in_buffer with chip_index in [0, chip_count) changes only
\* the bits [offset, offset + length) of that chip's register: every other
\* bit of the chip, every bit of every other chip and the grayscale buffer
\* stay as they were.
C2_SetFcFrame ==
    [][ ( /\ Called({"set_fc_bits_in_buffer"})
          /\ last'.part_bit_offset = 0
          /\ ValidChipIndex(last'.chip_index) )
        => LET f == FC_FIELDS[last'.field]
           IN /\ DOMAIN buffer_fc' = DOMAIN buffer_fc
              /\ \A i \in 0..(CHIP_BUFFER_BIT_COUNT - 1) :
                   (i < f.offset \/ i >= f.offset + f.length)
                   => RegBit(buffer_fc', last'.chip_index, i)
                        = RegBit(buffer_fc, last'.chip_index, i)
              /\ \A c \in (0..(chip_count - 1)) \ {last'.chip_index} :
                   \A k \in 0..(CHIP_BUFFER_BYTE_COUNT - 1) :
                     buffer_fc'[c * CHIP_BUFFER_BYTE_COUNT + k]
                       = buffer_fc[c * CHIP_BUFFER_BYTE_COUNT + k]
              /\ buffer' = buffer ]_vars

\* a write that changes its field on the last chip of a chain of two
C2_Witness ==
    /\ chip_count = 2
    /\ last.op = "set_fc_bits_in_buffer" /\ last.status = "ok"
    /\ last.chip_index = 1 /\ last.field = "LODVTH" /\ last.value = 3
    /\ RegBit(buffer_fc, 1, 1) = 1 /\ RegBit(buffer_fc, 1, 2) = 1

\* C10: set_fc_bits_in_buffer and get_fc_bits_in_buffer with a chip_index
\* outside [0, chip_count), negative ones included, fail with IndexError and
\* leave the function-control buffer unchanged.
C10_ChipIndexError ==
    [][ ( /\ Called({"set_fc_bits_in_buffer", "get_fc_bits_in_buffer"})
          /\ last'.part_bit_offset = 0
          /\ ~ValidChipIndex(last'.chip_index) )
        => /\ last'.status = "IndexError"
           /\ buffer_fc' = buffer_fc ]_vars

(***************************************************************************)
(* Properties of the pixel accessors (SpecPixel)                           *)
(***************************************************************************)
\* a component is an int in [0, 65535] or a float in [0, 1]
InDomain(c) ==
    IF c.t = "float" THEN 0 <= c.n /\ c.n <= c.d
    ELSE 0 <= c.n /\ c.n <= 65535

\* what a component in its domain is stored as: an int verbatim, a float f
\* as the truncation of f * 65535
Stored(c) ==
    IF c.t = "int" THEN c.n ELSE (c.n * 65535) \div c.d

\* b with blue, green, red of triple t (given R, G, B) big-endian at byte
\* offsets 6 * p + 0, + 2, + 4
WithPixel(b, p, t) ==
    [i \in DOMAIN b |->
        CASE i = 6 * p + 0 -> Stored(t[3]) \div 256
          [] i = 6 * p + 1 -> Stored(t[3]) % 256
          [] i = 6 * p + 2 -> Stored(t[2]) \div 256
          [] i = 6 * p + 3 -> Stored(t[2]) % 256
          [] i = 6 * p + 4 -> Stored(t[1]) \div 256
          [] i = 6 * p + 5 -> Stored(t[1]) % 256
          [] OTHER -> b[i]]

\* C3: set_pixel with pixel_index in [0, pixel_count) and a triple of ints in
\* [0, 65535] and floats in [0, 1] (mixed or not) stores blue at byte offset
\* 6 * pixel_index, green at + 2, red at + 4, big-endian, ints verbatim and a
\* float f as the truncation of f * 65535; no other byte changes.
C3_SetPixelStores ==
    [][ ( /\ Called({"set_pixel"})
          /\ ValidPixelIndex(last'.pixel_index)
          /\ Len(last'.triple) = 3
          /\ \A k \in 1..3 : InDomain(last'.triple[k]) )
        => /\ last'.status = "ok"
           /\ buffer' = WithPixel(buffer, last'.pixel_index, last'.triple) ]_vars

\* a mixed int/float triple written to the last pixel of a chain that has
\* padding slots, after an earlier write
C3_Witness ==
    /\ calls = 2 /\ pixel_count = PIXEL_PER_CHIP + 1
    /\ last.op = "set_pixel" /\ last.status = "ok"
    /\ last.pixel_index = pixel_count - 1
    /\ last.triple = << IntC(65535), FloatC(1, 2), IntC(258) >>
    /\ buffer[6 * last.pixel_index + 2] = 127
    /\ buffer[6 * last.pixel_index + 3] = 255
    /\ \E i \in 0..5 : buffer[i] # 0

\* C8: set_pixel and __setitem__ with a valid pixel index and a triple in
\* which a component, at any of the three positions, is a float outside
\* [0, 1] or an int outside [0, 65535] raise ValueError and leave the
\* grayscale buffer unchanged.
C8_RangeError ==
    [][ ( /\ Called({"set_pixel", "__setitem__"})
          /\ ValidPixelIndex(last'.pixel_index)
          /\ Len(last'.triple) = 3
          /\ \E k \in 1..3 : ~InDomain(last'.triple[k]) )
        => /\ last'.status = "ValueError"
           /\ buffer' = buffer ]_vars

\* a triple whose only bad component is the last one, refused after a pixel
\* was written
C8_Witness ==
    /\ last.op = "__setitem__" /\ last.status = "ValueError"
    /\ Len(last.triple) = 3
    /\ InDomain(last.triple[1]) /\ InDomain(last.triple[2])
    /\ last.triple[3] = FloatC(3, 2)
    /\ \E i \in DOMAIN buffer : buffer[i] # 0

\* C9: set_pixel and __setitem__ with a pixel_index outside [0, pixel_count)
\* (pixel_count itself, a negative index, a padding slot of the last chip)
\* raise IndexError and leave both buffers unchanged.
C9_PixelIndexError ==
    [][ ( /\ Called({"set_pixel", "__setitem__"})
          /\ ~ValidPixelIndex(last'.pixel_index) )
        => /\ last'.status = "IndexError"
           /\ buffer' = buffer
           /\ buffer_fc' = buffer_fc ]_vars

\* the last padding slot of a chain refused
C9_Witness ==
    /\ last.op = "set_pixel" /\ last.status = "IndexError"
    /\ pixel_count % PIXEL_PER_CHIP # 0
    /\ last.pixel_index = chip_count * PIXEL_PER_CHIP - 1
    /\ last.pixel_index > pixel_count

(***************************************************************************)
(* Properties of construction and of the bus (Spec, SpecCmd)               *)
(***************************************************************************)
\* the defaults as the register table states them
TableDefault(f) ==
    CASE f \in {"LODVTH", "SEL_TD0", "SEL_GDLY"} -> 1
      [] f \in {"CCB", "CCG", "CCR"} -> 256
      [] f = "BC" -> 4
      [] OTHER -> 0

\* C4: immediately after construction, for every pixel_count >= 1, reading
\* each field of _FC_FIELDS from each chip's function-control register
\* succeeds and returns the field's default (LODVTH = SEL_TD0 = SEL_GDLY = 1,
\* CCB = CCG = CCR = 0x100, BC = 4, every other field 0).
C4_DefaultsAfterConstruction ==
    (init_step = "done" /\ calls = 0) =>
        \A c \in 0..(chip_count - 1) : \A f \in FieldNames :
            LET r == get_fc_bits_in_buffer(buffer_fc, c, 0, FC_FIELDS[f])
            IN  /\ r.status = "ok"
                /\ r.value = FC_FIELDS[f].default
                /\ r.value = TableDefault(f)

\* construction of a chain of more than one chip has returned, and the last
\* chip's register reads back its defaults
C4_Witness ==
    /\ init_step = "done" /\ pc = "ready" /\ calls = 0
    /\ chip_count > 1
    /\ pixel_count % PIXEL_PER_CHIP # 0
    /\ get_fc_bits_in_buffer(buffer_fc, chip_count - 1, 0,
                             FC_FIELDS["CCR"]).value = 256
    /\ get_fc_bits_in_buffer(buffer_fc, chip_count - 1, 0,
                             FC_FIELDS["LODVTH"]).value = 1

InWindow ==
    pc \in {"w_begin", "w_mosi0", "w_latch0", "w_loop", "w_data",
            "w_clock_high", "w_clock_low"}

\* C5: in a command window with a documented opcode the latch line is low at
\* every rising clock edge with bit index below 16 - opcode and high at every
\* rising edge with bit index from 16 - opcode to 15, so that exactly opcode
\* of the 16 rising edges see the latch high; the latch line is low when the
\* window returns.
C5_LatchTiming ==
    [][ (InWindow /\ function_command \in DocumentedOpcodes) =>
          /\ (spi_clock = 0 /\ spi_clock' = 1) =>
                /\ index \in 0..15
                /\ (index < 16 - function_command => latch' = 0)
                /\ (index >= 16 - function_command => latch' = 1)
          /\ (~InWindow') =>
                /\ Len(win_latch) = 16
                /\ Ones(win_latch) = function_command
                /\ latch' = 0 ]_vars

\* a READFC window has clocked out its 16 bits: five rising edges with the
\* latch low, then eleven with the latch high
C5_Witness ==
    /\ pc = "w_loop" /\ index = 16
    /\ function_command = FC__READFC
    /\ Len(win_latch) = 16
    /\ win_latch[5] = 0 /\ win_latch[6] = 1
    /\ Ones(win_latch) = 11
    /\ latch = 1

\* the command windows of the running push, in the order they were sent
LogWindows == SelectSeq(bus_log, LAMBDA e : e.kind = "window")

\* C6: in one show() every command window that is followed by another one has
\* opcode WRTGS, and the last window, after which show() returns, has opcode
\* LATGS: LATGS occurs once per pass, after all WRTGS windows, for every
\* chain length.
C6_LatgsLast ==
    [][ (push = "show") =>
          /\ \A i \in 1..(Len(LogWindows) - 1) : LogWindows[i].cmd = FC__WRTGS
          /\ (push' = "none") =>
                /\ Len(LogWindows) >= 1
                /\ LogWindows[Len(LogWindows)].cmd = FC__LATGS
                /\ Cardinality({i \in 1..Len(LogWindows) :
                                  LogWindows[i].cmd = FC__LATGS}) = 1 ]_vars

\* a show() on a constructed chain of two chips is about to return: its last
\* window was LATGS, the one before WRTGS
C6_Witness ==
    /\ init_step = "done" /\ push = "show" /\ pc = "gs_next"
    /\ row = PIXEL_PER_CHIP - 1
    /\ chip_count = 2
    /\ Len(LogWindows) > 1
    /\ LogWindows[Len(LogWindows)].cmd = FC__LATGS
    /\ LogWindows[Len(LogWindows) - 1].cmd = FC__WRTGS

IsWindow(e, cmd) == e.kind = "window" /\ e.cmd = cmd

\* C7: one update_fc() produces exactly the bus events: a FCWRTEN window, a
\* bulk transfer of function-control buffer bytes, a WRTFC window; and in no
\* push is a WRTFC window sent without a FCWRTEN window before it.
C7_UpdateFcSequence ==
    [][ /\ \A i \in 1..Len(bus_log) :
              IsWindow(bus_log[i], FC__WRTFC) =>
                  \E j \in 1..(i - 1) : IsWindow(bus_log[j], FC__FCWRTEN)
        /\ (push = "update_fc" /\ push' = "none") =>
              /\ Len(bus_log) = 3
              /\ IsWindow(bus_log[1], FC__FCWRTEN)
              /\ bus_log[2].kind = "bulk" /\ bus_log[2].buf = "fc"
              /\ IsWindow(bus_log[3], FC__WRTFC) ]_vars

\* an update_fc() called after a field write is about to return, its three
\* bus events sent
C7_Witness ==
    /\ init_step = "done" /\ push = "update_fc" /\ pc = "fc_done"
    /\ last.op = "set_fc_bits_in_buffer"
    /\ Len(bus_log) = 3
    /\ IsWindow(bus_log[3], FC__WRTFC)
    /\ bus_log[2].count > 0

\* C12: __setitem__(key, value) and set_pixel(key, value) are the same
\* operation: from the same buffers, for every key and every value, both raise
\* the same kind of error (IndexError or ValueError) and leave the buffers
\* unchanged, or both succeed and leave the same grayscale buffer.
C12_SetItemIsSetPixel ==
    [][ Called({"set_pixel", "__setitem__"}) =>
          LET p == set_pixel(buffer, pixel_count, last'.pixel_index,
                             last'.triple)
              i == setitem(buffer, pixel_count, last'.pixel_index,
                           last'.triple)
          IN  /\ p.status = i.status
              /\ p.buffer = i.buffer
              /\ last'.status = p.status
              /\ buffer' = p.buffer
              /\ buffer_fc' = buffer_fc
              /\ p.status \in {"ok", "IndexError", "ValueError"}
              /\ (p.status # "ok" => buffer' = buffer) ]_vars

\* pixels[0] = value with a float component has succeeded on a buffer that an
\* earlier call had written, and set_pixel(0, value) leaves that same buffer
C12_Witness ==
    /\ calls = 2
    /\ last.op = "__setitem__" /\ last.status = "ok"
    /\ last.pixel_index = 0
    /\ \E j \in 1..Len(last.triple) : last.triple[j].t = "float"
    /\ buffer # Zeros(BufLen(buffer))
    /\ set_pixel(buffer, pixel_count, 0, last.triple).buffer = buffer

\* C16: set_fc_bits_in_buffer with a value wider than the field does not
\* raise: the field then holds value & mask, a following
\* get_fc_bits_in_buffer returns value & mask, and no bit outside the field
\* has changed.
C16_LenientTruncation ==
    [][ ( /\ Called({"set_fc_bits_in_buffer"})
          /\ last'.part_bit_offset = 0
          /\ ValidChipIndex(last'.chip_index)
          /\ last'.value >= 2 ^ FC_FIELDS[last'.field].length )
        => LET f == FC_FIELDS[last'.field]
               c == last'.chip_index
               kept == last'.value % (2 ^ f.length)
           IN /\ last'.status = "ok"
              /\ get_fc_bits_in_buffer(buffer_fc', c, 0, f)
                   = [status |-> "ok", value |-> kept]
              /\ \A i \in 0..(CHIP_BUFFER_BIT_COUNT - 1) :
                   RegBit(buffer_fc', c, i) =
                     IF i >= f.offset /\ i < f.offset + f.length
                     THEN (kept \div (2 ^ (i - f.offset))) % 2
                     ELSE RegBit(buffer_fc, c, i)
              /\ \A k \in DOMAIN buffer_fc :
                   (k \div CHIP_BUFFER_BYTE_COUNT # c)
                   => buffer_fc'[k] = buffer_fc[k] ]_vars

\* 1000 written to the 9-bit field CCG of the last chip of a chain of two:
\* the field holds 488
C16_Witness ==
    /\ chip_count = 2
    /\ last.op = "set_fc_bits_in_buffer" /\ last.status = "ok"
    /\ last.chip_index = 1 /\ last.field = "CCG" /\ last.value = 1000
    /\ get_fc_bits_in_buffer(buffer_fc, 1, 0, FC_FIELDS["CCG"]).value = 488
    /\ get_fc_bits_in_buffer(buffer_fc, 1, 0, FC_FIELDS["CCR"]).value = 256

(***************************************************************************)
(* Properties of item access (SpecItem)                                    *)
(***************************************************************************)
IntTriple(t) ==
    /\ Len(t) = COLORS_PER_PIXEL
    /\ \A j \in 1..Len(t) : t[j].t = "int" /\ 0 <= t[j].n /\ t[j].n <= 65535

\* C11: for every key in [0, pixel_count), key 0 included, and every integer
\* triple (r, g, b) with components in [0, 65535], the read pixels[key] that
\* follows pixels[key] = (r, g, b) succeeds and returns (r, g, b).
C11_SetItemThenGetItem ==
    [][ ( /\ Called({"__getitem__"})
          /\ last.op = "__setitem__"
          /\ last.pixel_index = last'.pixel_index
          /\ ValidPixelIndex(last.pixel_index)
          /\ IntTriple(last.triple) )
        => /\ last'.status = "ok"
           /\ last'.ret_triple = << last.triple[1].n, last.triple[2].n,
                                    last.triple[3].n >> ]_vars

(***************************************************************************)
(* Payload of the bus events (Spec)                                        *)
(***************************************************************************)
\* the big-endian 16-bit value at offset s of buffer b
Word16(b, s) == b[s] * 256 + b[s + 1]

\* C17: every command window started at offset s of a buffer produces
\* exactly 16 clock pulses, and the data line at the 16 rising edges carries,
\* in order, bits 15 down to 0 of buffer[s] * 256 + buffer[s + 1].
C17_WindowBits ==
    [][ /\ (InWindow /\ spi_clock = 0 /\ spi_clock' = 1) =>
              /\ Len(win_bits) < 16
              /\ spi_mosi' = (Word16(BufOf(cmd_buffer), cmd_start)
                                \div (2 ^ (15 - Len(win_bits)))) % 2
        /\ (InWindow /\ ~InWindow') =>
              /\ Len(win_bits) = 16
              /\ spi_clock' = 0
              /\ \A j \in 1..16 :
                    win_bits[j] = (Word16(BufOf(cmd_buffer), cmd_start)
                                     \div (2 ^ (16 - j))) % 2 ]_vars

\* the first window of a show() after set_channel(0, 513) on a chain of one
\* pixel has clocked out 0x0201
C17_Witness ==
    /\ push = "show" /\ pc = "w_loop" /\ index = 16
    /\ cmd_buffer = "gs" /\ cmd_start = 4
    /\ Word16(buffer, 4) = 513
    /\ win_bits = << 0, 0, 0, 0, 0, 0, 1, 0, 0, 0, 0, 0, 0, 0, 0, 1 >>

(***************************************************************************)
(* Termination of the pushes (SpecLive)                                    *)
(***************************************************************************)
LogBulks == SelectSeq(bus_log, LAMBDA e : e.kind = "bulk")

\* the push returns in this step, its last bus event a window clocked out
ReturnsAfter(bulks, windows) ==
    /\ Len(LogBulks) = bulks
    /\ Len(LogWindows) = windows
    /\ bus_log[Len(bus_log)].kind = "window"
    /\ Len(bus_log[Len(bus_log)].bits) = CHIP_FUNCTION_CMD_BIT_COUNT
    /\ ~InWindow

\* C13: provided the SPI lock is eventually granted to a caller that keeps
\* calling try_lock, every show() and every update_fc() returns; show()
\* returns after exactly 16 bulk transfers and 16 command windows,
\* update_fc() after exactly 1 bulk transfer and 2 command windows, and
\* neither returns before its last window has been clocked out.
C13_PushesComplete ==
    /\ (push = "show") ~> (push = "none")
    /\ (push = "update_fc") ~> (push = "none")
    /\ [][ /\ (push = "show" /\ push' = "none") => ReturnsAfter(16, 16)
           /\ (push = "update_fc" /\ push' = "none") => ReturnsAfter(1, 2)
         ]_vars

\* a show() called on the constructed driver waits for the lock that another
\* user of the bus holds, half way through its pass
C13_Witness ==
    /\ init_step = "done" /\ push = "show" /\ pc = "gs_lock"
    /\ spi_owner = "other"
    /\ row = 8
    /\ Len(LogBulks) = 8 /\ Len(LogWindows) = 8

(***************************************************************************)
(* Sizes (Spec)                                                            *)
(***************************************************************************)
\* C15: for every pixel_count >= 1, chip_count is ceil(pixel_count / 16), the
\* grayscale buffer has 96 * chip_count bytes and the function-control buffer
\* 6 * chip_count bytes; and no pixel, channel or field write, show() or
\* update_fc() changes chip_count or the length of either buffer.
C15_SizesFixed ==
    /\ [] ( /\ pixel_count >= 1
            /\ 16 * (chip_count - 1) < pixel_count
            /\ pixel_count <= 16 * chip_count
            /\ DOMAIN buffer = 0..(96 * chip_count - 1)
            /\ DOMAIN buffer_fc = 0..(6 * chip_count - 1) )
    /\ [][ /\ chip_count' = chip_count
           /\ pixel_count' = pixel_count
           /\ DOMAIN buffer' = DOMAIN buffer
           /\ DOMAIN buffer_fc' = DOMAIN buffer_fc ]_vars

\* a chain of 17 pixels, two chips, after a channel write and a show()
C15_Witness ==
    /\ pixel_count = 17 /\ chip_count = 2
    /\ init_step = "done" /\ push = "show" /\ pc = "gs_next"
    /\ row = PIXEL_PER_CHIP - 1
    /\ last.op = "set_channel" /\ last.status = "ok"
    /\ BufLen(buffer) = 192 /\ BufLen(buffer_fc) = 12
    /\ buffer # Zeros(192)

(***************************************************************************)
(* Construction with every pixel_count (SpecAny)                           *)
(***************************************************************************)
\* C14: construction with pixel_count = 0 fails with a configuration error,
\* before any pin or bus activity, and produces no driver.
C14_ZeroPixelsConfigError ==
    [][ (pixel_count = 0) =>
          /\ init_step' # "done"
          /\ UNCHANGED << spi_clock, spi_mosi, latch >>
          /\ spi_owner' # "self"
          /\ bus_log' = << >>
          /\ (init_step' = "failed" => last'.status = "ConfigError") ]_vars

(***************************************************************************)
(* Bytes and windows of one pass (Spec)                                    *)
(***************************************************************************)
\* in the running show() every command window sent so far directly follows a
\* bulk transfer of n bytes of the grayscale buffer
GsBulkBytes(n) ==
    (push = "show") =>
        \A i \in 1..Len(bus_log) :
            bus_log[i].kind = "window" =>
                /\ i > 1
                /\ bus_log[i - 1].kind = "bulk"
                /\ bus_log[i - 1].buf = "gs"
                /\ bus_log[i - 1].count = n

\* C18 (as the code has it): in a grayscale pass over a chain of N chips the
\* bulk transfer that precedes each command window carries exactly 6 * N - 2
\* bytes of the grayscale buffer.
C18_BulkBytes == GsBulkBytes(6 * chip_count - 2)

\* C18 (as stated): in a grayscale pass over a chain of N chips the bulk
\* transfer that precedes each command window carries exactly 6 * N - 6 bytes
\* of the grayscale buffer.
C18_BulkBytesAsStated == GsBulkBytes(6 * chip_count - 6)

\* the second row of a show() on two chips: a bulk transfer of 10 bytes from
\* offset 12 is on the log, after the window of the first row
C18_Witness ==
    /\ push = "show" /\ chip_count = 2 /\ row = 1
    /\ Len(bus_log) = 4
    /\ bus_log[2].kind = "window"
    /\ bus_log[3] = BulkEvent("gs", 12, 10)
    /\ bus_log[4].kind = "window" /\ bus_log[4].start = 22

\* the show() that returns in this step has sent n command windows
ShowReturnsWithWindows(n) ==
    (push = "show" /\ push' = "none") => Len(LogWindows) = n

\* C19 (as the code has it): one grayscale pass emits exactly 16 command
\* windows for every chain length, one per row of the pass: 16 for a chain
\* of 1 chip and 16 for a chain of 2 chips.
C19_WindowsPerPass ==
    /\ [] (push = "show" => Len(LogWindows) <= PIXEL_PER_CHIP)
    /\ [][ShowReturnsWithWindows(PIXEL_PER_CHIP)]_vars

\* C19 (as stated): one grayscale pass emits 16 command windows per chip: 16
\* for a chain of 1 chip, 32 in total for a chain of 2 chips.
C19_WindowsPerChip == [][ShowReturnsWithWindows(16 * chip_count)]_vars

\* a show() called on a constructed chain of two chips has sent its 16th
\* window, the one at the last two bytes of the buffer, and is about to return
C19_Witness ==
    /\ init_step = "done" /\ push = "show" /\ pc = "gs_next"
    /\ chip_count = 2
    /\ Len(LogWindows) = 16
    /\ LogWindows[16].start = 190
    /\ row + 1 = PIXEL_PER_CHIP

\* C20: in a function-control pass every command window transmits the two
\* bytes that directly follow the bytes already put on the wire in that pass:
\* the FCWRTEN window, the bulk transfer and the WRTFC window together
\* transmit each byte of the function-control buffer exactly once, in buffer
\* order, 48 * chip_count bits in total.
C20_FcPassEachByteOnce ==
    [][ (push = "update_fc" /\ push' = "none") =>
          /\ Len(bus_log) >= 1
          /\ bus_log[1].start = 0
          /\ \A i \in 2..Len(bus_log) :
                bus_log[i].start = bus_log[i - 1].start + bus_log[i - 1].count
          /\ bus_log[Len(bus_log)].start + bus_log[Len(bus_log)].count
                = CHIP_BUFFER_BYTE_COUNT * chip_count
          /\ \A i \in 1..Len(bus_log) : bus_log[i].buf = "fc" ]_vars

\* the events of the log carry consecutive byte ranges, the first from byte 0
Contiguous(log) ==
    /\ Len(log) >= 1 => log[1].start = 0
    /\ \A i \in 2..Len(log) :
          log[i].start = log[i - 1].start + log[i - 1].count

\* C21: in one grayscale pass over a chain of N >= 1 chips the bulk transfers
\* and command windows together transmit every byte of the grayscale buffer
\* exactly once, in ascending order, none skipped, repeated or read past the
\* end: the offset starts at 0, each window reads the two bytes directly
\* after the preceding bulk segment, and the offset is 96 * N when the pass
\* ends.
C21_GsPassEachByteOnce ==
    /\ [] ( (push = "show") =>
              /\ Contiguous(bus_log)
              /\ \A i \in 1..Len(bus_log) :
                    /\ bus_log[i].buf = "gs"
                    /\ bus_log[i].count >= 0
                    /\ bus_log[i].start + bus_log[i].count <= BufLen(buffer)
                    /\ bus_log[i].kind = "window" =>
                          /\ i > 1
                          /\ bus_log[i - 1].kind = "bulk" )
    /\ [][ (push = "show" /\ push' = "none") =>
              /\ Len(bus_log) >= 1
              /\ bus_log[Len(bus_log)].start + bus_log[Len(bus_log)].count
                    = 96 * chip_count
              /\ buffer_start + CHIP_FUNCTION_CMD_BYTE_COUNT
                    = BufLen(buffer) ]_vars

\* the last window of a show() on two chips has been sent from bytes 190 and
\* 191, after 16 bulk segments of 10 bytes
C21_Witness ==
    /\ push = "show" /\ pc = "gs_next" /\ chip_count = 2
    /\ Len(bus_log) = 32
    /\ bus_log[31] = BulkEvent("gs", 180, 10)
    /\ bus_log[32].kind = "window" /\ bus_log[32].start = 190
    /\ buffer_start = 190

(***************************************************************************)
(* Command windows with any opcode (SpecCmdAny)                            *)
(***************************************************************************)
\* C22: a command window requested with an opcode outside the documented set
\* {1, 3, 5, 7, 11, 13, 15} is rejected with a configuration error before
\* the bit-bang loop starts: no clock pulse is produced and the latch line is
\* never raised for such an opcode.
C22_UndocumentedOpcodeRejected ==
    [][ (InWindow /\ function_command \notin DocumentedOpcodes) =>
          /\ spi_clock' = spi_clock
          /\ latch' = latch
          /\ pc' \notin {"w_loop", "w_data", "w_clock_high", "w_clock_low"}
          /\ (~InWindow') => last'.status = "ConfigError" ]_vars

(***************************************************************************)
(* The reserved bit and the named setters (SpecFields, Spec)               *)
(***************************************************************************)
\* the 48-bit function-control register of chip i, as the set of its 1 bits
FcRegister(i) ==
    get_48bit_value_from_buffer(buffer_fc, i * CHIP_BUFFER_BYTE_COUNT)

\* C23: in every reachable state, after construction and after any sequence
\* of writes of _FC_FIELDS fields at part_bit_offset 0 (set_fc_bits_in_buffer,
\* set_fc_CC, set_fc_BC, set_fc_ESPWM and their _all variants) with arbitrary
\* values, bit 10 of every chip's function-control register is 0.
C23_Bit10Zero ==
    (init_step = "done") => \A i \in 0..(chip_count - 1) : 10 \notin FcRegister(i)

\* two writes at the fields on both sides of bit 10 of the last chip of a
\* chain of two, with values wider than the fields, have been made
C23_Witness ==
    /\ chip_count = 2 /\ calls = 2
    /\ last.op = "set_fc_bits_in_buffer" /\ last.status = "ok"
    /\ last.field = "LGSE1" /\ last.value = 15 /\ last.chip_index = 1
    /\ {9, 11, 12, 13} \subseteq FcRegister(1)
    /\ 10 \notin FcRegister(1)

(***************************************************************************)
(* set_channel (SpecChannel)                                               *)
(***************************************************************************)
\* the R, G, B values of pixel p as the buffer holds them (B, G, R on the wire)
PixelOf(b, p) ==
    << Word16(b, 6 * p + 4), Word16(b, 6 * p + 2), Word16(b, 6 * p) >>

\* set_channel three times: the R, G and B channel of pixel p
set_channel_rgb(b, p, t) ==
    LET r1 == set_channel(b, channel_count, 3 * p, t[1])
        r2 == set_channel(r1.buffer, channel_count, 3 * p + 1, t[2])
    IN  set_channel(r2.buffer, channel_count, 3 * p + 2, t[3])

\* C24: for channel_index c in [0, 3 * pixel_count) and v in [0, 65535],
\* set_channel(c, v) writes v big-endian at wire slot
\* 3 * (c div 3) + (2 - c mod 3) and changes no other byte, so that the three
\* calls for 3p, 3p+1, 3p+2 with r, g, b leave the buffer of
\* set_pixel(p, (r, g, b)); a channel_index outside the range raises
\* IndexError and a value outside [0, 65535] ValueError, the buffer unchanged.
C24_SetChannel ==
    /\ [][ Called({"set_channel"}) =>
             LET c == last'.channel_index
                 v == last'.value
                 slot == 3 * (c \div 3) + (2 - (c % 3))
                 t == [PixelOf(buffer, c \div 3) EXCEPT ![(c % 3) + 1] = v]
             IN  IF ~(0 <= c /\ c < 3 * pixel_count)
                 THEN last'.status = "IndexError" /\ buffer' = buffer
                 ELSE IF ~(0 <= v /\ v <= 65535)
                 THEN last'.status = "ValueError" /\ buffer' = buffer
                 ELSE /\ last'.status = "ok"
                      /\ buffer' = [buffer EXCEPT ![2 * slot] = v \div 256,
                                                  ![2 * slot + 1] = v % 256]
                      /\ buffer' = set_pixel(buffer, pixel_count, c \div 3,
                                             << IntC(t[1]), IntC(t[2]),
                                                IntC(t[3]) >>).buffer ]_vars
    /\ [] \A p \in {0, pixel_count - 1} :
            \A t \in {<< 1, 2, 3 >>, << 65535, 0, 513 >>} :
                /\ set_channel_rgb(buffer, p, t).status = "ok"
                /\ set_channel_rgb(buffer, p, t).buffer
                     = set_pixel(buffer, pixel_count, p,
                                 << IntC(t[1]), IntC(t[2]), IntC(t[3]) >>).buffer

\* the blue channel of the last pixel of a chain of 17, written after the red
\* channel of the first pixel: 513 is at the first two bytes of pixel 16
C24_Witness ==
    /\ pixel_count = PIXEL_PER_CHIP + 1 /\ calls = 2
    /\ last.op = "set_channel" /\ last.status = "ok"
    /\ last.channel_index = channel_count - 1 /\ last.value = 513
    /\ buffer[96] = 2 /\ buffer[97] = 1
    /\ buffer[4] = 255 /\ buffer[5] = 255

(***************************************************************************)
(* set_fc_ESPWM (SpecFields)                                               *)
(***************************************************************************)
\* the values of the ESPWM bit in the register table (lines 221-222):
\* 0 = enabled, 1 = disabled
ESPWM_ENABLED == 0
ESPWM_DISABLED == 1

\* the ESPWM field of chip i, read back
EspwmOf(b, i) == get_fc_bits_in_buffer(b, i, 0, FC_FIELDS["ESPWM"]).value

\* C25: after set_fc_ESPWM(chip_index, enable=True) the ESPWM field of that
\* chip holds the value the register table defines as enabled (0), after
\* set_fc_ESPWM(chip_index, enable=False) the value defined as disabled (1);
\* set_fc_ESPWM_all does the same for every chip.
C25_EspwmEnable ==
    [][ /\ ( /\ Called({"set_fc_ESPWM"})
             /\ last'.chip_index \in 0..(chip_count - 1) )
          => EspwmOf(buffer_fc', last'.chip_index)
               = IF last'.enable THEN ESPWM_ENABLED ELSE ESPWM_DISABLED
        /\ Called({"set_fc_ESPWM_all"})
          => \A i \in 0..(chip_count - 1) :
                EspwmOf(buffer_fc', i)
                  = IF last'.enable THEN ESPWM_ENABLED ELSE ESPWM_DISABLED
      ]_vars

(***************************************************************************)
(* Bus traffic of construction (Spec)                                      *)
(***************************************************************************)
\* the 16 bits of a window that sends the 16-bit number w, first bit first
WordBits(w) == [j \in 1..16 |-> (w \div (2 ^ (16 - j))) % 2]

\* the function-control buffer of a chain of chip_count chips with defaults
DefaultBufferFc ==
    init_buffer_fc(Zeros(CHIP_BUFFER_BYTE_COUNT * chip_count), chip_count)

\* C26: construction emits bus traffic in this order: the function-control
\* buffer is filled with the defaults of every chip first, then exactly one
\* function-control pass is sent, its payload the default registers, then
\* exactly two grayscale passes whose payload is all zero; no grayscale
\* command window is emitted before the WRTFC window of the initial
\* function-control pass.
C26_ConstructionOrder ==
    /\ [] ( (init_step = "init_buffer_fc") => (push = "none" /\ ~InWindow) )
    /\ [] ( (init_step = "update_fc") =>
              /\ buffer_fc = DefaultBufferFc
              /\ push \in {"none", "update_fc"}
              /\ InWindow => cmd_buffer = "fc"
              /\ \A i \in 1..Len(bus_log) :
                    /\ bus_log[i].buf = "fc"
                    /\ bus_log[i].kind = "window" =>
                          bus_log[i].bits
                            = WordBits(Word16(DefaultBufferFc, bus_log[i].start)) )
    /\ [] ( (init_step \in {"show", "show_again"}) =>
              /\ buffer = Zeros(CHIP_GS_BUFFER_BYTE_COUNT * chip_count)
              /\ push \in {"none", "show"}
              /\ InWindow => cmd_buffer = "gs"
              /\ \A i \in 1..Len(bus_log) :
                    /\ bus_log[i].buf = "gs"
                    /\ bus_log[i].kind = "window" =>
                          bus_log[i].bits = WordBits(0) )
    /\ [][ /\ (init_step' # init_step) =>
                \/ /\ init_step = "init_buffer_fc" /\ init_step' = "update_fc"
                   /\ buffer_fc' = DefaultBufferFc
                   /\ UNCHANGED << pinVars, bus_log >>
                \/ /\ init_step = "update_fc" /\ init_step' = "show"
                   /\ push = "update_fc" /\ push' = "none"
                   /\ Len(bus_log) = 3
                   /\ IsWindow(bus_log[3], FC__WRTFC)
                \/ /\ init_step = "show" /\ init_step' = "show_again"
                   /\ push = "show" /\ push' = "none"
                \/ /\ init_step = "show_again" /\ init_step' = "done"
                   /\ push = "show" /\ push' = "none"
           /\ (init_step # "done" /\ push # "none" /\ push' = "none") =>
                init_step' # init_step ]_vars

\* the second grayscale pass of the construction of a chain of two chips has
\* sent its last window, all zero, the registers at their defaults
C26_Witness ==
    /\ init_step = "show_again" /\ push = "show" /\ pc = "gs_next"
    /\ chip_count = 2 /\ row = PIXEL_PER_CHIP - 1
    /\ Len(bus_log) = 32
    /\ bus_log[32].cmd = FC__LATGS /\ bus_log[32].bits = WordBits(0)
    /\ buffer_fc = DefaultBufferFc
    /\ buffer_fc # Zeros(12)

(***************************************************************************)
(* The SPI lock (SpecLock)                                                 *)
(***************************************************************************)
\* C27: every bulk transfer of a push is executed while the driver holds the
\* SPI lock, and the lock is released after each bulk transfer, also when
\* the transfer raises: the lock is never held while a command window is
\* bit-banged and never held when show() or update_fc() returns or
\* propagates an error.
C27_LockAroundBulk ==
    /\ [] ( /\ pc \in {"gs_write", "fc_write"} => spi_owner = "self"
            /\ spi_owner = "self" =>
                  pc \in {"gs_write", "gs_unlock", "fc_write", "fc_unlock"}
            /\ InWindow => spi_owner # "self"
            /\ push = "none" => spi_owner # "self" )
    /\ [][ /\ (Len(bus_log') > Len(bus_log)
                /\ bus_log'[Len(bus_log')].kind = "bulk") =>
                    spi_owner = "self"
           /\ (pc \in {"gs_write", "gs_unlock", "fc_write", "fc_unlock"}
                /\ pc' \notin {"gs_write", "gs_unlock", "fc_write",
                                "fc_unlock"}) =>
                    spi_owner' = "none"
           /\ (push # "none" /\ push' = "none") => spi_owner' # "self" ]_vars

\* the bulk transfer of a row in the middle of a show() on the constructed
\* driver has raised: the push is over and the bus is free
C27_Witness ==
    /\ init_step = "done" /\ push = "none" /\ pc = "ready"
    /\ last.op = "show" /\ last.status = "Exception"
    /\ spi_owner = "none"

(***************************************************************************)
(* Pin edges within a command window (Spec)                                *)
(***************************************************************************)
\* C28: within every command window the data line and the latch line change
\* value only while the clock line is low, each bit position produces
\* exactly one low-high-low clock pulse, and the clock line is low when the
\* window returns.
C28_EdgesWhileClockLow ==
    [][ InWindow =>
          /\ (spi_mosi' # spi_mosi \/ latch' # latch) =>
                (spi_clock = 0 /\ spi_clock' = 0)
          /\ (spi_clock = 0 /\ spi_clock' = 1) =>
                /\ index \in 0..(CHIP_FUNCTION_CMD_BIT_COUNT - 1)
                /\ Len(win_bits) = index
                /\ index' = index
          /\ (pc # "w_begin" /\ spi_clock = 1 /\ spi_clock' = 0) =>
                /\ Len(win_bits) = index + 1
                /\ index' = index + 1
          /\ (pc # "w_begin" /\ spi_clock' # spi_clock) =>
                pc \in {"w_clock_high", "w_clock_low"}
          /\ (~InWindow') =>
                /\ index = CHIP_FUNCTION_CMD_BIT_COUNT
                /\ Len(win_bits) = CHIP_FUNCTION_CMD_BIT_COUNT
                /\ spi_clock = 0 /\ spi_clock' = 0 ]_vars

\* the latch line has just been raised for the last bit of a WRTGS window of
\* a show() after a channel write, the clock low after fifteen pulses
C28_Witness ==
    /\ push = "show" /\ pc = "w_data" /\ function_command = FC__WRTGS
    /\ index = 15 /\ latch = 1 /\ spi_clock = 0
    /\ Len(win_bits) = 15 /\ Ones(win_bits) > 0
    /\ last.op = "set_channel"

(***************************************************************************)
(* Two callers (SpecTwo)                                                   *)
(***************************************************************************)
\* the caller that is not running is in the middle of a push: it has put
\* something on the bus and has more to put
PeerMidPush ==
    /\ peer.push \in {"show", "update_fc"}
    /\ Len(peer.bus_log) > 0 \/ Len(peer.win_bits) > 0
    /\ peer.pc # "fc_done"
    /\ ~(peer.pc = "gs_next" /\ peer.row = PIXEL_PER_CHIP - 1)

\* the running caller puts something on the bus in this step: a bulk
\* transfer or a change of the clock, data or latch line
BusEvent ==
    /\ peer' = peer
    /\ \/ spi_clock' # spi_clock
       \/ spi_mosi' # spi_mosi
       \/ latch' # latch
       \/ /\ Len(bus_log') > Len(bus_log)
          /\ bus_log'[Len(bus_log')].kind = "bulk"

\* C29: when two callers run push operations (show and/or update_fc)
\* concurrently on the same driver, the bus events of one push (its bulk
\* transfers and the clock, data and latch changes of its command windows)
\* never interleave with those of the other push.
C29_NoInterleaving == [][ PeerMidPush => ~BusEvent ]_vars

=============================================================================
